---- MODULE Spec2Model ----
(***************************************************************************)
(* Pulse: a relay that pairs two WebSocket connections per token and       *)
(* forwards binary frames between them (cmd/pulse/main.go, relay part),    *)
(* and the sender / receiver transfer engines (internal/transfer).         *)
(*                                                                         *)
(* Seven specifications share the module:                                  *)
(*   SpecRelay    - connection handlers and the expiry sweep of the relay  *)
(*   SpecLocks    - the same threads, one step per lock acquisition        *)
(*   SpecReceiver - Receiver.ReceiveFile reading a stream of frames        *)
(*   SpecSender   - Sender.Connect, WaitForReceiver and Sender.SendFile    *)
(*   SpecBatch    - cmdSend sending a list of files and recording each     *)
(*   SpecTransfer - sender, relay and receiver joined end to end           *)
(*   SpecPairing  - a sender and a receiver joining the room of a token    *)
(* Time is counted in ticks of the cleanup ticker (one minute); a room's    *)
(* createdAt is kept as its age, time.Since(room.createdAt).                *)
(***************************************************************************)
EXTENDS Integers, Sequences, FiniteSets, TLC

\* ------------------------------------------------------------------ bounds
NumTokens == 2
MaxFrames == 1
NumFiles == 2
NumBytes == 2
MaxContent == 2
MaxRecvFrames == 4
MaxRetries == 4
MaxFileSize == 5
MaxChunkSize == 3
NumErrs == 2
MaxBatch == 2
MaxReads == 2

\* ------------------------------------------------------- program constants
\* len(room.clients) >= 2 in Room.AddClient
RoomCapacity == 2
\* 10*time.Minute in cleanupLoop, in ticks of the 1-minute ticker
RoomTTL == 10

\* cfg.Retries = 3 in NewSender when none is configured
DefaultRetries == 3
\* DefaultChunkSize = 64 * 1024
DefaultChunkSize == 65536
\* time.Duration((attempt+1)*2) * time.Second in Sender.Connect
BackoffStep == 2
\* len(entries) > 100 in history.SaveEntry
HistoryCap == 100

\* one connection more than a room admits
Conns == 1..(RoomCapacity + 1)
Tokens == 1..NumTokens
\* every handler calls GetOrCreateRoom once, so there are no more rooms than
\* connections
Rooms == Conns
NoRoom == 0

VARIABLES
    \* ---- relay: RoomManager, Room objects, clock and ticker
    rooms,          \* rm.rooms: token -> room object (NoRoom when absent)
    roomToken,      \* Room.token of each allocated room object
    roomClients,    \* Room.clients: sequence of connections
    roomAge,        \* time.Since(room.createdAt) in ticks, counted up to RoomTTL + 1
    nextRoom,       \* next unallocated room object
    tickPending,    \* a tick is waiting in ticker.C
    toVisit,        \* cleanupLoop holds rm.mu: tokens its range loop has still to visit
    \* ---- relay: one handleWebSocket invocation per connection
    pc,             \* position of the handler
    connToken,      \* token := r.PathValue("token")
    connRoom,       \* room := roomManager.GetOrCreateRoom(token)
    connClosed,     \* conn.Close() has been called on the connection
    cur,            \* message returned by the last conn.ReadMessage()
    isEmpty,        \* isEmpty local of the handler
    written,        \* frames passed to conn.WriteMessage(BinaryMessage, ..)
    frames,         \* binary frames read so far by all handlers (bounded)
    \* ---- receiver: Receiver.ReceiveFile and the destination directory
    rPc,            \* "check" (the select on ctx.Done), "read" (in ReadMessage), "returned"
    rCtxDone,       \* ctx.Done() is closed: the receiver's cancellation signal
    rFile,          \* file != nil
    rDestPath,      \* destPath (NoPath for "")
    rMetaChecksum,  \* metadata.Checksum (NoChecksum for "")
    rFileContent,   \* fileContent
    rBytesReceived, \* bytesReceived
    rMsgType,       \* msg.Type of the last decoded message
    rResult,        \* what ReceiveFile returned ("none" while it runs)
    rFrames,        \* frames read so far (bounded)
    disk,           \* the files of destDir: content, or Absent
    \* ---- sender: Sender.Connect and Sender.SendFile
    sPc,            \* "connect", "connfailed", "connected", "waitfailed", "ready", "loop",
                    \* "returned"
    sRetries,       \* s.config.Retries
    sChunkSize,     \* s.config.ChunkSize
    sAttempt,       \* attempt, the loop variable of Connect
    sDials,         \* calls of Dial made so far
    sSleeps,        \* the seconds of each time.Sleep(backoff), in order
    sLastErr,       \* lastErr (NoErr for nil)
    sConnErr,       \* the error wrapped by the error Connect returned
    sFileSize,      \* stat.Size() of the file to send
    sOffset,        \* the read position of file
    sBytesSent,     \* bytesSent
    sCtxDone,       \* ctx.Done() is closed: the sender's cancellation signal
    sSent,          \* the messages of the frames written to s.conn, in order
    sProgress,      \* the calls progressFn(sent, total), in order
    sResult,        \* what SendFile returned ("none" while it runs)
    \* ---- cmdSend: WaitForReceiver, the loop over filePaths, the history file
    sWaitFrame,     \* what the ReadMessage of WaitForReceiver returned ("none" before)
    sWaitErr,       \* what WaitForReceiver returned ("none" before, "nil" for success)
    bFiles,         \* filePaths: the size of each file, in argument order
    bIndex,         \* i + 1 for the loop variable i of cmdSend (0: no batch)
    emitted,        \* the entries passed to history.SaveEntry, in order
    history,        \* the entries of ~/.pulse/history.json
    \* ---- the sender's connection, the relay's forwarding, the receiver's connection
    fwd,            \* frames of the sender the relay handler has read and broadcast
    linkDown,       \* a WriteMessage to the receiver's connection has failed
    rInbox,         \* the frames written to the receiver's connection, in order
    \* ---- relay, lock by lock: RoomManager.mu, Room.mu and who holds them
    rmMu,           \* holder of RoomManager.mu (NoThread when free)
    roomMu,         \* holder of Room.mu of each room object
    hPc,            \* position of each handleWebSocket invocation
    hToken,         \* its token
    hRoom,          \* its room
    hClosed,        \* conn.Close() has been called on its connection
    hReads,         \* binary frames its ReadMessage has returned
    hWritten,       \* frames passed to WriteMessage on its connection: <<from, serial>>
    lTable,         \* rm.rooms
    lClients,       \* Room.clients
    lNextRoom,      \* next unallocated room object
    lFrames,        \* binary frames read by all handlers (bounded)
    swPc,           \* position of cleanupLoop
    swVisit,        \* tokens its range loop has still to visit
    swCur,          \* the token of the expired room it is closing
    \* ---- the pairing of one sender and one receiver in the room of their token
    pairRelayPc,    \* the relay's handler of each end: "none", "add", "read", "rejected"
    pairClients,    \* Room.clients of the room, in the order of AddClient
    pairOutbox,     \* frames the receiver wrote that its handler has not read yet
    pairInbox,      \* frames written to the sender's connection, in order
    pairRecvPc      \* Receiver.Connect: "connect", "dialled", "connected", "failed"

relayVars == <<rooms, roomToken, roomClients, roomAge, nextRoom,
               tickPending, toVisit,
               pc, connToken, connRoom, connClosed, cur, isEmpty, written, frames>>

recvVars == <<rPc, rCtxDone, rFile, rDestPath, rMetaChecksum, rFileContent,
              rBytesReceived, rMsgType, rResult, rFrames, disk>>

sendVars == <<sPc, sRetries, sChunkSize, sAttempt, sDials, sSleeps, sLastErr, sConnErr,
              sFileSize, sOffset, sBytesSent, sCtxDone, sSent, sProgress, sResult>>

cmdVars == <<sWaitFrame, sWaitErr, bFiles, bIndex, emitted, history>>

wireVars == <<fwd, linkDown, rInbox>>

lockVars == <<rmMu, roomMu, hPc, hToken, hRoom, hClosed, hReads, hWritten,
              lTable, lClients, lNextRoom, lFrames, swPc, swVisit, swCur>>

pairVars == <<pairRelayPc, pairClients, pairOutbox, pairInbox, pairRecvPc>>

\* what the relay alone, one ReceiveFile alone and one SendFile alone leave untouched
otherVars == <<cmdVars, wireVars, lockVars, pairVars>>

vars == <<relayVars, recvVars, sendVars, otherVars>>

\* ------------------------------------------------------------------ helpers
SeqToSet(s) == {s[i] : i \in 1..Len(s)}

\* append(room.clients[:i], room.clients[i+1:]...) for the first i with c == conn
RemoveFirst(s, c) ==
    IF \E i \in 1..Len(s) : s[i] = c
    THEN LET i == CHOOSE k \in 1..Len(s) : s[k] = c /\ \A j \in 1..(k-1) : s[j] # c
         IN  SubSeq(s, 1, i-1) \o SubSeq(s, i+1, Len(s))
    ELSE s

\* cleanupLoop holds rm.mu from rm.mu.Lock() to rm.mu.Unlock()
Sweeping == toVisit # {}

\* mutant of Expired: the ceiling itself counts as exceeded
ExpiredAtCeiling(r) == roomAge[r] >= RoomTTL

\* time.Since(room.createdAt) > 10*time.Minute
Expired(r) == roomAge[r] > RoomTTL

\* len(room.clients) >= 2
RoomFull(r) == Len(roomClients[r]) >= RoomCapacity

\* mutant of BroadcastTargets: the sender is not skipped
BroadcastTargetsAll(r, sender) == SeqToSet(roomClients[r])

\* the targets of Room.Broadcast: conn != sender
BroadcastTargets(r, sender) == {d \in SeqToSet(roomClients[r]) : d # sender}

\* ------------------------------------------------------------------ relay
RelayInit ==
    /\ rooms = [t \in Tokens |-> NoRoom]
    /\ roomToken = [r \in Rooms |-> 0]
    /\ roomClients = [r \in Rooms |-> <<>>]
    /\ roomAge = [r \in Rooms |-> 0]
    /\ nextRoom = 1
    /\ tickPending = FALSE
    /\ toVisit = {}
    /\ pc = [c \in Conns |-> "start"]
    /\ connToken = [c \in Conns |-> 0]
    /\ connRoom = [c \in Conns |-> NoRoom]
    /\ connClosed = [c \in Conns |-> FALSE]
    /\ cur = [c \in Conns |-> 0]
    /\ isEmpty = [c \in Conns |-> FALSE]
    /\ written = [c \in Conns |-> <<>>]
    /\ frames = 0

\* Connections and tokens are interchangeable: they are numbered in the order
\* in which they first reach GetOrCreateRoom.
ArrivesNext(c, t) ==
    /\ \A b \in Conns : b < c => pc[b] # "start"
    /\ \A u \in Tokens : u < t => \E b \in Conns : connToken[b] = u

\* handleWebSocket up to and including roomManager.GetOrCreateRoom(token);
\* rm.mu is taken and released inside, so the sweep must not be holding it
GetOrCreateRoom(c, t) ==
    /\ pc[c] = "start"
    /\ ArrivesNext(c, t)
    /\ ~Sweeping
    /\ connToken' = [connToken EXCEPT ![c] = t]
    /\ IF rooms[t] # NoRoom
       THEN /\ connRoom' = [connRoom EXCEPT ![c] = rooms[t]]
            /\ UNCHANGED <<rooms, roomToken, roomAge, nextRoom>>
       ELSE /\ connRoom' = [connRoom EXCEPT ![c] = nextRoom]
            /\ rooms' = [rooms EXCEPT ![t] = nextRoom]
            /\ roomToken' = [roomToken EXCEPT ![nextRoom] = t]
            /\ roomAge' = [roomAge EXCEPT ![nextRoom] = 0]
            /\ nextRoom' = nextRoom + 1
    /\ pc' = [pc EXCEPT ![c] = "add"]
    /\ UNCHANGED <<roomClients, tickPending, toVisit,
                   connClosed, cur, isEmpty, written, frames>>
    /\ UNCHANGED <<recvVars, sendVars, otherVars>>

\* room.AddClient(conn) under room.mu; on false the close message is written
\* and the deferred conn.Close() runs as the handler returns
AddClient(c) ==
    /\ pc[c] = "add"
    /\ IF RoomFull(connRoom[c])
       THEN /\ pc' = [pc EXCEPT ![c] = "rejected"]
            /\ connClosed' = [connClosed EXCEPT ![c] = TRUE]
            /\ UNCHANGED roomClients
       ELSE /\ pc' = [pc EXCEPT ![c] = "read"]
            /\ roomClients' = [roomClients EXCEPT ![connRoom[c]] = Append(@, c)]
            /\ UNCHANGED connClosed
    /\ UNCHANGED <<rooms, roomToken, roomAge, nextRoom, tickPending,
                   toVisit, connToken, connRoom, cur, isEmpty,
                   written, frames>>
    /\ UNCHANGED <<recvVars, sendVars, otherVars>>

\* conn.ReadMessage() returns a frame; only a BinaryMessage is broadcast, any
\* other frame is dropped and the loop reads again. Each binary frame read is
\* a distinct payload, named by its serial number.
ReadMessage(c, binary) ==
    /\ pc[c] = "read"
    /\ ~connClosed[c]
    /\ frames < MaxFrames
    /\ IF binary
       THEN /\ frames' = frames + 1
            /\ cur' = [cur EXCEPT ![c] = frames + 1]
            /\ pc' = [pc EXCEPT ![c] = "broadcast"]
       ELSE UNCHANGED <<frames, cur, pc>>
    /\ UNCHANGED <<rooms, roomToken, roomClients, roomAge, nextRoom,
                   tickPending, toVisit,
                   connToken, connRoom, connClosed, isEmpty, written>>
    /\ UNCHANGED <<recvVars, sendVars, otherVars>>

\* Room.Broadcast under room.mu: conn.WriteMessage on every client but the
\* sender; the result of WriteMessage is ignored. The loop-local message goes
\* out of scope as the loop reads again.
Broadcast(c) ==
    /\ pc[c] = "broadcast"
    /\ written' = [d \in Conns |->
                     IF d \in BroadcastTargets(connRoom[c], c)
                     THEN Append(written[d], cur[c])
                     ELSE written[d]]
    /\ cur' = [cur EXCEPT ![c] = 0]
    /\ pc' = [pc EXCEPT ![c] = "read"]
    /\ UNCHANGED <<rooms, roomToken, roomClients, roomAge, nextRoom,
                   tickPending, toVisit,
                   connToken, connRoom, connClosed, isEmpty, frames>>
    /\ UNCHANGED <<recvVars, sendVars, otherVars>>

\* conn.ReadMessage() returns an error (the peer went away, or the connection
\* was closed) and the loop breaks; then, under room.mu,
\* isEmpty := len(room.clients) == 0
CheckEmpty(c) ==
    /\ pc[c] = "read"
    /\ isEmpty' = [isEmpty EXCEPT ![c] = (Len(roomClients[connRoom[c]]) = 0)]
    /\ pc' = [pc EXCEPT ![c] = "leave"]
    /\ UNCHANGED <<rooms, roomToken, roomClients, roomAge, nextRoom,
                   tickPending, toVisit,
                   connToken, connRoom, connClosed, cur, written, frames>>
    /\ UNCHANGED <<recvVars, sendVars, otherVars>>

\* RoomManager.DeleteRoom: delete(rm.rooms, token)
DeleteRoom(t) == [rooms EXCEPT ![t] = NoRoom]

\* Room.RemoveClient: the clients of room r without conn
RemoveClient(r, c) == RemoveFirst(roomClients[r], c)

\* the rest of handleWebSocket, one critical section per step:
\* if isEmpty { roomManager.DeleteRoom(token) } under rm.mu, then the deferred
\* calls, last first: room.RemoveClient(conn) under room.mu and conn.Close()
Leave(c) ==
    /\ pc[c] \in {"leave", "remove"}
    /\ IF pc[c] = "leave" /\ isEmpty[c]
       THEN /\ ~Sweeping
            /\ rooms' = DeleteRoom(connToken[c])
            /\ pc' = [pc EXCEPT ![c] = "remove"]
            /\ UNCHANGED <<roomClients, connClosed>>
       ELSE /\ roomClients' = [roomClients EXCEPT
                                 ![connRoom[c]] = RemoveClient(connRoom[c], c)]
            /\ connClosed' = [connClosed EXCEPT ![c] = TRUE]
            /\ pc' = [pc EXCEPT ![c] = "done"]
            /\ UNCHANGED rooms
    /\ UNCHANGED <<roomToken, roomAge, nextRoom, tickPending, toVisit,
                   connToken, connRoom, cur, isEmpty, written, frames>>
    /\ UNCHANGED <<recvVars, sendVars, otherVars>>

\* a minute passes: every room is a tick older (an age beyond RoomTTL is
\* not counted further: the code only asks whether it exceeds the ceiling),
\* and the ticker puts a tick in ticker.C unless one is waiting
Tick ==
    /\ roomAge' = [r \in Rooms |->
                     IF r < nextRoom /\ roomAge[r] <= RoomTTL
                     THEN roomAge[r] + 1 ELSE roomAge[r]]
    /\ tickPending' = TRUE
    /\ UNCHANGED <<rooms, roomToken, roomClients, nextRoom, toVisit,
                   pc, connToken, connRoom, connClosed, cur, isEmpty, written, frames>>
    /\ UNCHANGED <<recvVars, sendVars, otherVars>>

\* cleanupLoop: a tick is received, rm.mu.Lock(), the range loop starts over
\* the rooms of the table (an empty table ends the pass at once)
SweepBegin ==
    /\ tickPending
    /\ ~Sweeping
    /\ tickPending' = FALSE
    /\ toVisit' = {t \in Tokens : rooms[t] # NoRoom}
    /\ UNCHANGED <<rooms, roomToken, roomClients, roomAge, nextRoom,
                   pc, connToken, connRoom, connClosed, cur, isEmpty, written, frames>>
    /\ UNCHANGED <<recvVars, sendVars, otherVars>>

\* cleanupLoop: one iteration of the range loop over rm.rooms, room.mu held
\* around the conn.Close() calls; rm.mu.Unlock() follows the last iteration
SweepRoom(t) ==
    /\ t \in toVisit
    /\ toVisit' = toVisit \ {t}
    /\ IF Expired(rooms[t])
       THEN /\ connClosed' = [d \in Conns |->
                                connClosed[d] \/ d \in SeqToSet(roomClients[rooms[t]])]
            /\ rooms' = DeleteRoom(t)
       ELSE UNCHANGED <<connClosed, rooms>>
    /\ UNCHANGED <<roomToken, roomClients, roomAge, nextRoom, tickPending,
                   pc, connToken, connRoom, cur, isEmpty, written, frames>>
    /\ UNCHANGED <<recvVars, sendVars, otherVars>>

RelayNext ==
    \/ \E c \in Conns, t \in Tokens : GetOrCreateRoom(c, t)
    \/ \E c \in Conns : AddClient(c)
    \/ \E c \in Conns, binary \in BOOLEAN : ReadMessage(c, binary)
    \/ \E c \in Conns : Broadcast(c)
    \/ \E c \in Conns : CheckEmpty(c)
    \/ \E c \in Conns : Leave(c)
    \/ Tick
    \/ SweepBegin
    \/ \E t \in Tokens : SweepRoom(t)

\* ---------------------------------------------------------------- receiver
Files == 1..NumFiles
NoPath == 0
Bytes == 1..NumBytes
Absent == <<-1>>
NoChecksum == -1

\* a digit for every byte value of the model
ByteBase == MaxFileSize + NumBytes + 1

\* crypto.ComputeChecksum: hex SHA-256 of the bytes, as a number that differs
\* for different byte sequences
RECURSIVE ComputeChecksum(_)
ComputeChecksum(b) ==
    IF b = <<>> THEN 0
    ELSE ComputeChecksum(SubSeq(b, 1, Len(b) - 1)) * ByteBase + b[Len(b)]

\* byte sequences of length at most n
RECURSIVE SeqsUpTo(_)
SeqsUpTo(n) ==
    IF n = 0 THEN {<<>>}
    ELSE LET shorter == SeqsUpTo(n - 1)
         IN  shorter \cup {Append(q, x) : q \in shorter, x \in Bytes}

\* the payloads a Chunk message may carry, and the checksums a Metadata
\* message may declare
Payloads == SeqsUpTo(1)
DeclaredChecksums == {NoChecksum} \cup {ComputeChecksum(b) : b \in SeqsUpTo(MaxContent)}

\* os.Remove(destPath); os.Remove("") removes nothing
Remove(path) == IF path = NoPath THEN disk ELSE [disk EXCEPT ![path] = Absent]

RecvInit ==
    /\ rPc = "check"
    /\ rCtxDone = FALSE
    /\ rFile = FALSE
    /\ rDestPath = NoPath
    /\ rMetaChecksum = NoChecksum
    /\ rFileContent = <<>>
    /\ rBytesReceived = 0
    /\ rMsgType = "none"
    /\ rResult = "none"
    /\ rFrames = 0
    /\ disk = [f \in Files |-> Absent]

\* return "", stats, err
RecvReturn(result) ==
    /\ rPc' = "returned"
    /\ rResult' = result

\* the signal goroutine of cmdReceive calls cancel()
RecvSignal ==
    /\ rPc # "returned"
    /\ ~rCtxDone
    /\ rCtxDone' = TRUE
    /\ UNCHANGED <<rPc, rFile, rDestPath, rMetaChecksum, rFileContent, rBytesReceived,
                   rMsgType, rResult, rFrames, disk>>
    /\ UNCHANGED <<relayVars, sendVars, otherVars>>

\* mutant of RecvCheckCtx: the cancellation path returns without os.Remove
RecvCheckCtxKeepsFile ==
    /\ rPc = "check"
    /\ IF rCtxDone
       THEN RecvReturn("cancelled")
       ELSE /\ rPc' = "read"
            /\ UNCHANGED rResult
    /\ UNCHANGED <<rCtxDone, rFile, rDestPath, rMetaChecksum, rFileContent,
                   rBytesReceived, rMsgType, rFrames, disk>>
    /\ UNCHANGED <<relayVars, sendVars, otherVars>>

\* the select at the top of the loop: on ctx.Done() remove the file and
\* return; otherwise (default) go on to SetReadDeadline and ReadMessage
RecvCheckCtx ==
    /\ rPc = "check"
    /\ IF rCtxDone
       THEN /\ disk' = IF rFile THEN Remove(rDestPath) ELSE disk
            /\ RecvReturn("cancelled")
       ELSE /\ rPc' = "read"
            /\ UNCHANGED <<disk, rResult>>
    /\ UNCHANGED <<rCtxDone, rFile, rDestPath, rMetaChecksum, rFileContent,
                   rBytesReceived, rMsgType, rFrames>>
    /\ UNCHANGED <<relayVars, sendVars, otherVars>>

\* ReadMessage, DecryptChunk or DecodeMessage fails: remove the file if one
\* is open and return the error
RecvFrameError(kind) ==
    /\ rPc = "read"
    /\ rFrames < MaxRecvFrames
    /\ rFrames' = rFrames + 1
    /\ disk' = IF rFile THEN Remove(rDestPath) ELSE disk
    /\ RecvReturn(kind)
    /\ UNCHANGED <<rCtxDone, rFile, rDestPath, rMetaChecksum, rFileContent,
                   rBytesReceived, rMsgType>>
    /\ UNCHANGED <<relayVars, sendVars, otherVars>>

\* case MsgTypeMetadata, ParseMetadata fails
RecvMetadataParseError ==
    /\ rPc = "read"
    /\ rFrames < MaxRecvFrames
    /\ rFrames' = rFrames + 1
    /\ rMsgType' = "Metadata"
    /\ RecvReturn("parse")
    /\ UNCHANGED <<rCtxDone, rFile, rDestPath, rMetaChecksum, rFileContent,
                   rBytesReceived, disk>>
    /\ UNCHANGED <<relayVars, sendVars, otherVars>>

\* case MsgTypeMetadata, os.Create fails: file is nil again
RecvMetadataCreateError(f, checksum) ==
    /\ rPc = "read"
    /\ rFrames < MaxRecvFrames
    /\ rFrames' = rFrames + 1
    /\ rMsgType' = "Metadata"
    /\ rMetaChecksum' = checksum
    /\ rDestPath' = f
    /\ rFile' = FALSE
    /\ RecvReturn("create")
    /\ UNCHANGED <<rCtxDone, rFileContent, rBytesReceived, disk>>
    /\ UNCHANGED <<relayVars, sendVars, otherVars>>

\* case MsgTypeMetadata: destPath is set, the file is created (or truncated)
\* and fileContent starts empty
RecvMetadata(f, checksum) ==
    /\ rPc = "read"
    /\ rFrames < MaxRecvFrames
    /\ rFrames' = rFrames + 1
    /\ rMsgType' = "Metadata"
    /\ rMetaChecksum' = checksum
    /\ rDestPath' = f
    /\ rFile' = TRUE
    /\ disk' = [disk EXCEPT ![f] = <<>>]
    /\ rFileContent' = <<>>
    /\ rPc' = "check"
    /\ UNCHANGED <<rCtxDone, rBytesReceived, rResult>>
    /\ UNCHANGED <<relayVars, sendVars, otherVars>>

\* case MsgTypeChunk: a chunk before any file is open is refused; a failed
\* write removes the file; otherwise the payload goes to the file and to
\* fileContent
RecvChunk(payload, writeOk) ==
    /\ rPc = "read"
    /\ rFrames < MaxRecvFrames
    /\ rFrames' = rFrames + 1
    /\ rMsgType' = "Chunk"
    /\ IF ~rFile
       THEN /\ RecvReturn("chunk_before_metadata")
            /\ UNCHANGED <<disk, rFileContent, rBytesReceived>>
       ELSE IF ~writeOk
            THEN /\ disk' = Remove(rDestPath)
                 /\ RecvReturn("write")
                 /\ UNCHANGED <<rFileContent, rBytesReceived>>
            ELSE /\ disk' = [disk EXCEPT ![rDestPath] = @ \o payload]
                 /\ rFileContent' = rFileContent \o payload
                 /\ rBytesReceived' = rBytesReceived + Len(payload)
                 /\ rPc' = "check"
                 /\ UNCHANGED rResult
    /\ UNCHANGED <<rCtxDone, rFile, rDestPath, rMetaChecksum>>
    /\ UNCHANGED <<relayVars, sendVars, otherVars>>

\* mutant of ChecksumOk: the declared checksum is not compared
ChecksumNotCompared == TRUE

\* metadata.Checksum == "" or crypto.ComputeChecksum(fileContent) == metadata.Checksum
ChecksumOk ==
    rMetaChecksum = NoChecksum \/ ComputeChecksum(rFileContent) = rMetaChecksum

\* case MsgTypeComplete: verify the checksum if one was declared; on mismatch
\* remove the file and fail, otherwise return destPath and the stats
RecvComplete ==
    /\ rPc = "read"
    /\ rFrames < MaxRecvFrames
    /\ rFrames' = rFrames + 1
    /\ rMsgType' = "Complete"
    /\ IF ChecksumOk
       THEN /\ RecvReturn("ok")
            /\ UNCHANGED disk
       ELSE /\ disk' = Remove(rDestPath)
            /\ RecvReturn("checksum_mismatch")
    /\ UNCHANGED <<rCtxDone, rFile, rDestPath, rMetaChecksum, rFileContent,
                   rBytesReceived>>
    /\ UNCHANGED <<relayVars, sendVars, otherVars>>

\* mutant of RecvPeerAbort: the peer's Cancel or Error returns without os.Remove
RecvPeerAbortKeepsFile(type) ==
    /\ rPc = "read"
    /\ rFrames < MaxRecvFrames
    /\ rFrames' = rFrames + 1
    /\ rMsgType' = type
    /\ RecvReturn(IF type = "Cancel" THEN "peer_cancel" ELSE "peer_error")
    /\ UNCHANGED <<rCtxDone, rFile, rDestPath, rMetaChecksum, rFileContent,
                   rBytesReceived, disk>>
    /\ UNCHANGED <<relayVars, sendVars, otherVars>>

\* case MsgTypeCancel, case MsgTypeError: os.Remove(destPath) and fail
RecvPeerAbort(type) ==
    /\ rPc = "read"
    /\ rFrames < MaxRecvFrames
    /\ rFrames' = rFrames + 1
    /\ rMsgType' = type
    /\ disk' = Remove(rDestPath)
    /\ RecvReturn(IF type = "Cancel" THEN "peer_cancel" ELSE "peer_error")
    /\ UNCHANGED <<rCtxDone, rFile, rDestPath, rMetaChecksum, rFileContent,
                   rBytesReceived>>
    /\ UNCHANGED <<relayVars, sendVars, otherVars>>

\* a Ready message: no case of the switch, the loop goes on
RecvReady ==
    /\ rPc = "read"
    /\ rFrames < MaxRecvFrames
    /\ rFrames' = rFrames + 1
    /\ rMsgType' = "Ready"
    /\ rPc' = "check"
    /\ UNCHANGED <<rCtxDone, rFile, rDestPath, rMetaChecksum, rFileContent,
                   rBytesReceived, rResult, disk>>
    /\ UNCHANGED <<relayVars, sendVars, otherVars>>

RecvNext ==
    \/ RecvSignal
    \/ RecvCheckCtx
    \/ \E kind \in {"read", "decrypt", "decode"} : RecvFrameError(kind)
    \/ RecvMetadataParseError
    \/ \E f \in Files, cs \in DeclaredChecksums : RecvMetadataCreateError(f, cs)
    \/ \E f \in Files, cs \in DeclaredChecksums : RecvMetadata(f, cs)
    \/ \E p \in Payloads, writeOk \in BOOLEAN : RecvChunk(p, writeOk)
    \/ RecvComplete
    \/ \E type \in {"Cancel", "Error"} : RecvPeerAbort(type)
    \/ RecvReady

\* ------------------------------------------------------------------ sender
NoErr == 0
Errs == 1..NumErrs

\* NewSender: a configured value of 0 means the default
RetriesOf(cfgRetries) == IF cfgRetries = 0 THEN DefaultRetries ELSE cfgRetries
ChunkSizeOf(cfgChunkSize) == IF cfgChunkSize = 0 THEN DefaultChunkSize ELSE cfgChunkSize

\* the file to send: byte i of the file is the number i, so that the order
\* and the completeness of what is sent can be read off the bytes
FileContent == [i \in 1..sFileSize |-> i]

\* mutant of TotalChunks: the division rounds down
TotalChunksFloor(size, chunkSize) == size \div chunkSize

\* totalChunks := int((fileSize + int64(ChunkSize) - 1) / int64(ChunkSize))
TotalChunks(size, chunkSize) == (size + chunkSize - 1) \div chunkSize

\* n of file.Read(buf) on a regular file: a full buffer, or what is left
ReadLen(size, offset, chunkSize) ==
    IF size - offset < chunkSize THEN size - offset ELSE chunkSize

\* backoff := time.Duration((attempt+1)*2) * time.Second
Backoff(attempt) == (attempt + 1) * BackoffStep

\* the protocol messages the sender puts in frames
Message(type, payload, size, chunks, checksum) ==
    [type |-> type, payload |-> payload, size |-> size, chunks |-> chunks,
     checksum |-> checksum]
MetadataMessage ==
    Message("Metadata", <<>>, sFileSize, TotalChunks(sFileSize, sChunkSize),
            ComputeChecksum(FileContent))
ChunkMessage(payload) == Message("Chunk", payload, 0, 0, NoChecksum)
CompleteMessage == Message("Complete", <<>>, 0, 0, NoChecksum)
CancelMessage == Message("Cancel", <<>>, 0, 0, NoChecksum)

\* NewSender with the configuration given on the command line, and a file
SendInit ==
    /\ sPc = "connect"
    /\ \E cfgRetries \in 0..MaxRetries : sRetries = RetriesOf(cfgRetries)
    /\ \E cfgChunkSize \in 0..MaxChunkSize : sChunkSize = ChunkSizeOf(cfgChunkSize)
    /\ sFileSize \in 0..MaxFileSize
    /\ sAttempt = 0
    /\ sDials = 0
    /\ sSleeps = <<>>
    /\ sLastErr = NoErr
    /\ sConnErr = NoErr
    /\ sOffset = 0
    /\ sBytesSent = 0
    /\ sCtxDone = FALSE
    /\ sSent = <<>>
    /\ sProgress = <<>>
    /\ sResult = "none"

\* mutant of Dial: Connect backs off once more after the Dial that succeeded
DialSleepsAfterSuccess(ok, err) ==
    /\ sPc = "connect"
    /\ sAttempt < sRetries
    /\ sDials' = sDials + 1
    /\ IF ok
       THEN /\ sPc' = "connected"
            /\ sSleeps' = Append(sSleeps, Backoff(sAttempt))
            /\ UNCHANGED <<sAttempt, sLastErr>>
       ELSE /\ sLastErr' = err
            /\ sSleeps' = IF sAttempt < sRetries - 1
                          THEN Append(sSleeps, Backoff(sAttempt))
                          ELSE sSleeps
            /\ sAttempt' = sAttempt + 1
            /\ UNCHANGED sPc
    /\ UNCHANGED <<sRetries, sChunkSize, sConnErr, sFileSize, sOffset, sBytesSent,
                   sCtxDone, sSent, sProgress, sResult>>
    /\ UNCHANGED <<relayVars, recvVars, otherVars>>

\* Sender.Connect, one iteration of the loop: Dial; on success return nil, on
\* failure remember the error and sleep unless this was the last attempt
Dial(ok, err) ==
    /\ sPc = "connect"
    /\ sAttempt < sRetries
    /\ sDials' = sDials + 1
    /\ IF ok
       THEN /\ sPc' = "connected"
            /\ UNCHANGED <<sAttempt, sLastErr, sSleeps>>
       ELSE /\ sLastErr' = err
            /\ sSleeps' = IF sAttempt < sRetries - 1
                          THEN Append(sSleeps, Backoff(sAttempt))
                          ELSE sSleeps
            /\ sAttempt' = sAttempt + 1
            /\ UNCHANGED sPc
    /\ UNCHANGED <<sRetries, sChunkSize, sConnErr, sFileSize, sOffset, sBytesSent,
                   sCtxDone, sSent, sProgress, sResult>>
    /\ UNCHANGED <<relayVars, recvVars, otherVars>>

\* Sender.Connect, after the loop: the error wraps lastErr
ConnectFailed ==
    /\ sPc = "connect"
    /\ ~(sAttempt < sRetries)
    /\ sPc' = "connfailed"
    /\ sConnErr' = sLastErr
    /\ UNCHANGED <<sRetries, sChunkSize, sAttempt, sDials, sSleeps, sLastErr,
                   sFileSize, sOffset, sBytesSent, sCtxDone, sSent, sProgress, sResult>>
    /\ UNCHANGED <<relayVars, recvVars, otherVars>>

\* what the one ReadMessage of WaitForReceiver may return: an error (the read
\* deadline passed), a frame that does not decrypt, one that does not decode,
\* or a message of some type
WaitFrames == {"timeout", "undecryptable", "undecodable",
               "Ready", "Metadata", "Chunk", "Complete", "Cancel", "Error"}

\* mutant of WaitResult: the type of the message is not looked at
WaitResultAnyType(frame) ==
    CASE frame = "timeout" -> "timeout"
      [] frame = "undecryptable" -> "decrypt"
      [] frame = "undecodable" -> "decode"
      [] OTHER -> "nil"

\* Sender.WaitForReceiver after its ReadMessage: the error it returns
WaitResult(frame) ==
    CASE frame = "timeout" -> "timeout"
      [] frame = "undecryptable" -> "decrypt"
      [] frame = "undecodable" -> "decode"
      [] frame = "Ready" -> "nil"
      [] OTHER -> "type"

\* Sender.WaitForReceiver: one ReadMessage under the read deadline, decrypt,
\* decode, compare the type with MsgTypeReady; cmdSend returns on an error
WaitForReceiver(frame) ==
    /\ sPc = "connected"
    /\ sWaitFrame' = frame
    /\ sWaitErr' = WaitResult(frame)
    /\ sPc' = IF WaitResult(frame) = "nil" THEN "ready" ELSE "waitfailed"
    /\ UNCHANGED <<sRetries, sChunkSize, sAttempt, sDials, sSleeps, sLastErr, sConnErr,
                   sFileSize, sOffset, sBytesSent, sCtxDone, sSent, sProgress, sResult>>
    /\ UNCHANGED <<bFiles, bIndex, emitted, history>>
    /\ UNCHANGED <<relayVars, recvVars, wireVars, lockVars, pairVars>>

\* the signal goroutine of cmdSend calls cancel()
SendSignal ==
    /\ sPc \in {"ready", "loop"}
    /\ ~sCtxDone
    /\ sCtxDone' = TRUE
    /\ UNCHANGED <<sPc, sRetries, sChunkSize, sAttempt, sDials, sSleeps, sLastErr,
                   sConnErr, sFileSize, sOffset, sBytesSent, sSent, sProgress, sResult>>
    /\ UNCHANGED <<relayVars, recvVars, otherVars>>

\* return stats, err
SendReturn(result) ==
    /\ sPc' = "returned"
    /\ sResult' = result

\* Sender.SendFile up to the loop: open, stat, read for the checksum, seek
\* (fileOk), then encrypt (encOk) and write (writeOk) the Metadata message
SendMetadata(fileOk, encOk, writeOk) ==
    /\ sPc = "ready"
    /\ IF ~fileOk THEN /\ SendReturn("file_error")
                       /\ UNCHANGED sSent
       ELSE IF ~encOk THEN /\ SendReturn("encrypt_error")
                           /\ UNCHANGED sSent
       ELSE IF ~writeOk THEN /\ SendReturn("write_error")
                             /\ UNCHANGED sSent
       ELSE /\ sSent' = Append(sSent, MetadataMessage)
            /\ sPc' = "loop"
            /\ UNCHANGED sResult
    /\ UNCHANGED <<sRetries, sChunkSize, sAttempt, sDials, sSleeps, sLastErr, sConnErr,
                   sFileSize, sOffset, sBytesSent, sCtxDone, sProgress>>
    /\ UNCHANGED <<relayVars, recvVars, otherVars>>

\* mutant of SendCancel: the Cancel path leaves the loop instead of returning
SendCancelBreaks(encOk, writeOk) ==
    /\ sPc = "loop"
    /\ sCtxDone
    /\ sSent' = Append(Append(sSent, CancelMessage), CompleteMessage)
    /\ SendReturn("ok")
    /\ UNCHANGED <<sRetries, sChunkSize, sAttempt, sDials, sSleeps, sLastErr, sConnErr,
                   sFileSize, sOffset, sBytesSent, sCtxDone, sProgress>>
    /\ UNCHANGED <<relayVars, recvVars, otherVars>>

\* the select at the top of the loop, case <-ctx.Done(): the Cancel message
\* is written if it could be encrypted, the result of the write is ignored,
\* and ctx.Err() is returned
SendCancel(encOk, writeOk) ==
    /\ sPc = "loop"
    /\ sCtxDone
    /\ sSent' = IF encOk /\ writeOk THEN Append(sSent, CancelMessage) ELSE sSent
    /\ SendReturn("cancelled")
    /\ UNCHANGED <<sRetries, sChunkSize, sAttempt, sDials, sSleeps, sLastErr, sConnErr,
                   sFileSize, sOffset, sBytesSent, sCtxDone, sProgress>>
    /\ UNCHANGED <<relayVars, recvVars, otherVars>>

\* mutant of SendChunk: progressFn is given the bytes of the chunk, not bytesSent
SendChunkReportsChunk(readOk, encOk, writeOk) ==
    /\ sPc = "loop"
    /\ ~sCtxDone
    /\ sOffset < sFileSize
    /\ LET n == ReadLen(sFileSize, sOffset, sChunkSize)
       IN  IF ~(readOk /\ encOk /\ writeOk)
           THEN /\ SendReturn("write_error")
                /\ UNCHANGED <<sOffset, sSent, sBytesSent, sProgress>>
           ELSE /\ sOffset' = sOffset + n
                /\ sSent' = Append(sSent,
                                   ChunkMessage(SubSeq(FileContent, sOffset + 1, sOffset + n)))
                /\ sBytesSent' = sBytesSent + n
                /\ sProgress' = Append(sProgress, <<n, sFileSize>>)
                /\ UNCHANGED <<sPc, sResult>>
    /\ UNCHANGED <<sRetries, sChunkSize, sAttempt, sDials, sSleeps, sLastErr, sConnErr,
                   sFileSize, sCtxDone>>
    /\ UNCHANGED <<relayVars, recvVars, otherVars>>

\* mutant of SendChunk: a Chunk that could not be written is followed by a
\* Cancel message before the error is returned
SendChunkNotifiesPeer(readOk, encOk, writeOk) ==
    /\ sPc = "loop"
    /\ ~sCtxDone
    /\ sOffset < sFileSize
    /\ LET n == ReadLen(sFileSize, sOffset, sChunkSize)
       IN  IF ~readOk THEN /\ SendReturn("read_error")
                           /\ UNCHANGED <<sOffset, sSent, sBytesSent, sProgress>>
           ELSE IF ~encOk THEN /\ SendReturn("encrypt_error")
                               /\ sOffset' = sOffset + n
                               /\ UNCHANGED <<sSent, sBytesSent, sProgress>>
           ELSE IF ~writeOk THEN /\ SendReturn("write_error")
                                 /\ sOffset' = sOffset + n
                                 /\ sSent' = Append(sSent, CancelMessage)
                                 /\ UNCHANGED <<sBytesSent, sProgress>>
           ELSE /\ sOffset' = sOffset + n
                /\ sSent' = Append(sSent,
                                   ChunkMessage(SubSeq(FileContent, sOffset + 1, sOffset + n)))
                /\ sBytesSent' = sBytesSent + n
                /\ sProgress' = Append(sProgress, <<sBytesSent + n, sFileSize>>)
                /\ UNCHANGED <<sPc, sResult>>
    /\ UNCHANGED <<sRetries, sChunkSize, sAttempt, sDials, sSleeps, sLastErr, sConnErr,
                   sFileSize, sCtxDone>>
    /\ UNCHANGED <<relayVars, recvVars, otherVars>>

\* one iteration of the loop with bytes left: file.Read, encrypt and write
\* the Chunk message, count the bytes, call progressFn
SendChunk(readOk, encOk, writeOk) ==
    /\ sPc = "loop"
    /\ ~sCtxDone
    /\ sOffset < sFileSize
    /\ LET n == ReadLen(sFileSize, sOffset, sChunkSize)
       IN  IF ~readOk THEN /\ SendReturn("read_error")
                           /\ UNCHANGED <<sOffset, sSent, sBytesSent, sProgress>>
           ELSE IF ~encOk THEN /\ SendReturn("encrypt_error")
                               /\ sOffset' = sOffset + n
                               /\ UNCHANGED <<sSent, sBytesSent, sProgress>>
           ELSE IF ~writeOk THEN /\ SendReturn("write_error")
                                 /\ sOffset' = sOffset + n
                                 /\ UNCHANGED <<sSent, sBytesSent, sProgress>>
           ELSE /\ sOffset' = sOffset + n
                /\ sSent' = Append(sSent,
                                   ChunkMessage(SubSeq(FileContent, sOffset + 1, sOffset + n)))
                /\ sBytesSent' = sBytesSent + n
                /\ sProgress' = Append(sProgress, <<sBytesSent + n, sFileSize>>)
                /\ UNCHANGED <<sPc, sResult>>
    /\ UNCHANGED <<sRetries, sChunkSize, sAttempt, sDials, sSleeps, sLastErr, sConnErr,
                   sFileSize, sCtxDone>>
    /\ UNCHANGED <<relayVars, recvVars, otherVars>>

\* mutant of SendComplete: having written the Complete message, SendFile
\* waits for an acknowledgement instead of returning
SendCompleteAwaitsAck(encOk, writeOk) ==
    /\ sPc = "loop"
    /\ ~sCtxDone
    /\ sOffset = sFileSize
    /\ IF ~encOk THEN /\ SendReturn("encrypt_error")
                      /\ UNCHANGED sSent
       ELSE IF ~writeOk THEN /\ SendReturn("write_error")
                             /\ UNCHANGED sSent
       ELSE /\ sSent' = Append(sSent, CompleteMessage)
            /\ sPc' = "awaitack"
            /\ UNCHANGED sResult
    /\ UNCHANGED <<sRetries, sChunkSize, sAttempt, sDials, sSleeps, sLastErr, sConnErr,
                   sFileSize, sOffset, sBytesSent, sCtxDone, sProgress>>
    /\ UNCHANGED <<relayVars, recvVars, otherVars>>

\* file.Read returns io.EOF: the loop ends, the Complete message is
\* encrypted and written and the stats are returned
SendComplete(encOk, writeOk) ==
    /\ sPc = "loop"
    /\ ~sCtxDone
    /\ sOffset = sFileSize
    /\ IF ~encOk THEN /\ SendReturn("encrypt_error")
                      /\ UNCHANGED sSent
       ELSE IF ~writeOk THEN /\ SendReturn("write_error")
                             /\ UNCHANGED sSent
       ELSE /\ sSent' = Append(sSent, CompleteMessage)
            /\ SendReturn("ok")
    /\ UNCHANGED <<sRetries, sChunkSize, sAttempt, sDials, sSleeps, sLastErr, sConnErr,
                   sFileSize, sOffset, sBytesSent, sCtxDone, sProgress>>
    /\ UNCHANGED <<relayVars, recvVars, otherVars>>

SendNext ==
    \/ \E ok \in BOOLEAN, err \in Errs : Dial(ok, err)
    \/ ConnectFailed
    \/ \E frame \in WaitFrames : WaitForReceiver(frame)
    \/ SendSignal
    \/ \E fileOk, encOk, writeOk \in BOOLEAN : SendMetadata(fileOk, encOk, writeOk)
    \/ \E encOk, writeOk \in BOOLEAN : SendCancel(encOk, writeOk)
    \/ \E readOk, encOk, writeOk \in BOOLEAN : SendChunk(readOk, encOk, writeOk)
    \/ \E encOk, writeOk \in BOOLEAN : SendComplete(encOk, writeOk)

\* ------------------------------------------------------- cmdSend, a batch
\* the batches that start with a file of the given size
BatchesFrom(size) ==
    {b \in UNION {[1..n -> 0..MaxFileSize] : n \in 1..MaxBatch} : b[1] = size}

\* cmdSend called with filePaths: the first SendFile is given filePaths[0]
BatchInit ==
    /\ sWaitFrame = "none"
    /\ sWaitErr = "none"
    /\ bFiles \in BatchesFrom(sFileSize)
    /\ bIndex = 1
    /\ emitted = <<>>
    /\ history = <<>>

\* histEntry of cmdSend for filePaths[i-1]
HistEntry(i) == [direction |-> "send", file |-> i, size |-> bFiles[i], status |-> "ok"]

\* entries[len(entries)-100:] when there are more than 100
KeepLast(entries) ==
    IF Len(entries) > HistoryCap
    THEN SubSeq(entries, Len(entries) - HistoryCap + 1, Len(entries))
    ELSE entries

\* history.SaveEntry: load, append, keep the last 100, write; any failure
\* leaves the file as it was and is returned as an error
SaveEntry(e, saveOk) == IF saveOk THEN KeepLast(Append(history, e)) ELSE history

\* mutant of CmdSendNextFile: the loop goes on after a SendFile that failed
CmdSendNextFileAnyway(saveOk) ==
    /\ sPc = "returned"
    /\ bIndex < Len(bFiles)
    /\ emitted' = Append(emitted, HistEntry(bIndex))
    /\ history' = SaveEntry(HistEntry(bIndex), saveOk)
    /\ bIndex' = bIndex + 1
    /\ sFileSize' = bFiles[bIndex + 1]
    /\ sOffset' = 0
    /\ sBytesSent' = 0
    /\ sProgress' = <<>>
    /\ sResult' = "none"
    /\ sPc' = "ready"
    /\ UNCHANGED <<sRetries, sChunkSize, sAttempt, sDials, sSleeps, sLastErr, sConnErr,
                   sCtxDone, sSent>>
    /\ UNCHANGED <<sWaitFrame, sWaitErr, bFiles>>
    /\ UNCHANGED <<relayVars, recvVars, wireVars, lockVars, pairVars>>

\* cmdSend after a SendFile that returned nil: the entry is saved (the result
\* of SaveEntry is dropped) and the loop calls SendFile for the next path, or
\* ends; a SendFile that failed makes cmdSend return
CmdSendNextFile(saveOk) ==
    /\ sPc = "returned"
    /\ sResult = "ok"
    /\ emitted' = Append(emitted, HistEntry(bIndex))
    /\ history' = SaveEntry(HistEntry(bIndex), saveOk)
    /\ IF bIndex < Len(bFiles)
       THEN /\ bIndex' = bIndex + 1
            /\ sFileSize' = bFiles[bIndex + 1]
            /\ sOffset' = 0
            /\ sBytesSent' = 0
            /\ sProgress' = <<>>
            /\ sResult' = "none"
            /\ sPc' = "ready"
       ELSE /\ sPc' = "done"
            /\ UNCHANGED <<bIndex, sFileSize, sOffset, sBytesSent, sProgress, sResult>>
    /\ UNCHANGED <<sRetries, sChunkSize, sAttempt, sDials, sSleeps, sLastErr, sConnErr,
                   sCtxDone, sSent>>
    /\ UNCHANGED <<sWaitFrame, sWaitErr, bFiles>>
    /\ UNCHANGED <<relayVars, recvVars, wireVars, lockVars, pairVars>>

BatchNext ==
    \/ Dial(TRUE, NoErr)
    \/ \E frame \in WaitFrames : WaitForReceiver(frame)
    \/ SendSignal
    \/ \E fileOk, encOk, writeOk \in BOOLEAN : SendMetadata(fileOk, encOk, writeOk)
    \/ \E encOk, writeOk \in BOOLEAN : SendCancel(encOk, writeOk)
    \/ \E readOk, encOk, writeOk \in BOOLEAN : SendChunk(readOk, encOk, writeOk)
    \/ \E encOk, writeOk \in BOOLEAN : SendComplete(encOk, writeOk)
    \/ \E saveOk \in BOOLEAN : CmdSendNextFile(saveOk)

\* ------------------------------ one Sender and one Receiver through the relay
\* the key both ends took from the link
SessionKey == "key"

\* the wire codec: a type tag and the payload (for Metadata, its fields)
EncodeMessage(m) == <<m.type, m.payload, m.size, m.chunks, m.checksum>>
DecodeMessage(b) == Message(b[1], b[2], b[3], b[4], b[5])

\* crypto.EncryptChunk and crypto.DecryptChunk: the plaintext comes back
\* under the key it was sealed with, and under no other
EncryptChunk(p, key) == [key |-> key, sealed |-> p]
DecryptOk(c, key) == c.key = key
DecryptChunk(c, key) == c.sealed

\* the frame the sender wrote for message m
FrameOf(m) == EncryptChunk(EncodeMessage(m), SessionKey)

\* mutant of RelayForward: a failed write does not end the forwarding
RelayForwardLossy(writeOk) ==
    /\ fwd < Len(sSent)
    /\ fwd' = fwd + 1
    /\ rInbox' = IF writeOk THEN Append(rInbox, FrameOf(sSent[fwd + 1])) ELSE rInbox
    /\ linkDown' = (linkDown \/ ~writeOk)
    /\ UNCHANGED <<relayVars, recvVars, sendVars, cmdVars, lockVars, pairVars>>

\* the handler of the sender's connection: ReadMessage returns the sender's
\* next frame and Broadcast writes it to the receiver's connection; the
\* result of WriteMessage is ignored, and once a write to a connection has
\* failed every later write to it fails
RelayForward(writeOk) ==
    /\ fwd < Len(sSent)
    /\ fwd' = fwd + 1
    /\ IF writeOk /\ ~linkDown
       THEN /\ rInbox' = Append(rInbox, FrameOf(sSent[fwd + 1]))
            /\ UNCHANGED linkDown
       ELSE /\ linkDown' = TRUE
            /\ UNCHANGED rInbox
    /\ UNCHANGED <<relayVars, recvVars, sendVars, cmdVars, lockVars, pairVars>>

\* r.conn.ReadMessage() of ReceiveFile has a frame to return, and the message
\* DecryptChunk and DecodeMessage make of it
HasFrame ==
    /\ rPc = "read"
    /\ rFrames < Len(rInbox)
    /\ DecryptOk(rInbox[rFrames + 1], SessionKey)
NextMessage == DecodeMessage(DecryptChunk(rInbox[rFrames + 1], SessionKey))

\* ReceiveFile reads the sender's Metadata: the file named in it is created,
\* or os.Create fails
DeliverMetadata(f, createOk) ==
    /\ HasFrame
    /\ NextMessage.type = "Metadata"
    /\ IF createOk
       THEN RecvMetadata(f, NextMessage.checksum)
       ELSE RecvMetadataCreateError(f, NextMessage.checksum)

\* ReceiveFile reads a Chunk of the sender
DeliverChunk(writeOk) ==
    /\ HasFrame
    /\ NextMessage.type = "Chunk"
    /\ RecvChunk(NextMessage.payload, writeOk)

\* ReceiveFile reads the sender's Complete
DeliverComplete ==
    /\ HasFrame
    /\ NextMessage.type = "Complete"
    /\ RecvComplete

\* mutant of DeliverCancel: a Cancel message is a message of no known type
DeliverCancelSkipped ==
    /\ HasFrame
    /\ NextMessage.type = "Cancel"
    /\ rFrames' = rFrames + 1
    /\ rMsgType' = "Cancel"
    /\ rPc' = "check"
    /\ UNCHANGED <<rCtxDone, rFile, rDestPath, rMetaChecksum, rFileContent,
                   rBytesReceived, rResult, disk>>
    /\ UNCHANGED <<relayVars, sendVars, otherVars>>

\* ReceiveFile reads the sender's Cancel
DeliverCancel ==
    /\ HasFrame
    /\ NextMessage.type = "Cancel"
    /\ RecvPeerAbort("Cancel")

\* the two ends get paired: the sender's Dial succeeds and the frame its
\* WaitForReceiver reads is the Ready of the receiver
TransferNext ==
    \/ Dial(TRUE, NoErr)
    \/ WaitForReceiver("Ready")
    \/ SendSignal
    \/ \E fileOk, encOk, writeOk \in BOOLEAN : SendMetadata(fileOk, encOk, writeOk)
    \/ \E encOk, writeOk \in BOOLEAN : SendCancel(encOk, writeOk)
    \/ \E readOk, encOk, writeOk \in BOOLEAN : SendChunk(readOk, encOk, writeOk)
    \/ \E encOk, writeOk \in BOOLEAN : SendComplete(encOk, writeOk)
    \/ \E writeOk \in BOOLEAN : RelayForward(writeOk)
    \/ RecvSignal
    \/ RecvCheckCtx
    \/ RecvFrameError("read")
    \/ \E f \in Files, createOk \in BOOLEAN : DeliverMetadata(f, createOk)
    \/ \E writeOk \in BOOLEAN : DeliverChunk(writeOk)
    \/ DeliverComplete
    \/ DeliverCancel

\* ------------------------------------------------- the relay, lock by lock
\* the threads of the relay: one handleWebSocket per connection, and
\* cleanupLoop
Sweeper == 0
NoThread == -1
Threads == Conns \cup {Sweeper}

LockInit ==
    /\ rmMu = NoThread
    /\ roomMu = [r \in Rooms |-> NoThread]
    /\ hPc = [c \in Conns |-> "start"]
    /\ hToken = [c \in Conns |-> 0]
    /\ hRoom = [c \in Conns |-> NoRoom]
    /\ hClosed = [c \in Conns |-> FALSE]
    /\ hReads = [c \in Conns |-> 0]
    /\ hWritten = [c \in Conns |-> <<>>]
    /\ lTable = [t \in Tokens |-> NoRoom]
    /\ lClients = [r \in Rooms |-> <<>>]
    /\ lNextRoom = 1
    /\ lFrames = 0
    /\ swPc = "idle"
    /\ swVisit = {}
    /\ swCur = 0

\* handleWebSocket is called for a connection of token t and reaches
\* rm.mu.Lock() in GetOrCreateRoom (connections and tokens are numbered in
\* the order in which they arrive)
HandlerArrives(c, t) ==
    /\ hPc[c] = "start"
    /\ \A b \in Conns : b < c => hPc[b] # "start"
    /\ \A u \in Tokens : u < t => \E b \in Conns : hToken[b] = u
    /\ hToken' = [hToken EXCEPT ![c] = t]
    /\ hPc' = [hPc EXCEPT ![c] = "wantTable"]
    /\ UNCHANGED <<rmMu, roomMu, hRoom, hClosed, hReads, hWritten,
                   lTable, lClients, lNextRoom, lFrames, swPc, swVisit, swCur>>
    /\ UNCHANGED <<relayVars, recvVars, sendVars, cmdVars, wireVars, pairVars>>

\* GetOrCreateRoom: rm.mu.Lock(), look the token up or create the room,
\* rm.mu.Unlock(); then the handler reaches room.mu.Lock() in AddClient
LockedGetOrCreateRoom(c) ==
    /\ hPc[c] = "wantTable"
    /\ rmMu = NoThread
    /\ IF lTable[hToken[c]] # NoRoom
       THEN /\ hRoom' = [hRoom EXCEPT ![c] = lTable[hToken[c]]]
            /\ UNCHANGED <<lTable, lNextRoom>>
       ELSE /\ hRoom' = [hRoom EXCEPT ![c] = lNextRoom]
            /\ lTable' = [lTable EXCEPT ![hToken[c]] = lNextRoom]
            /\ lNextRoom' = lNextRoom + 1
    /\ hPc' = [hPc EXCEPT ![c] = "wantAdd"]
    /\ UNCHANGED <<rmMu, roomMu, hToken, hClosed, hReads, hWritten,
                   lClients, lFrames, swPc, swVisit, swCur>>
    /\ UNCHANGED <<relayVars, recvVars, sendVars, cmdVars, wireVars, pairVars>>

\* mutant of LockedAddClient: the room is full when two connections have
\* ever been added to it, those that have left included
LockedAddClientCumulative(c) ==
    /\ hPc[c] = "wantAdd"
    /\ roomMu[hRoom[c]] = NoThread
    /\ IF Cardinality({d \in Conns : hRoom[d] = hRoom[c] /\ hPc[d] \notin
                          {"start", "wantTable", "wantAdd", "rejected"}}) >= RoomCapacity
       THEN /\ hPc' = [hPc EXCEPT ![c] = "rejected"]
            /\ hClosed' = [hClosed EXCEPT ![c] = TRUE]
            /\ UNCHANGED lClients
       ELSE /\ hPc' = [hPc EXCEPT ![c] = "read"]
            /\ lClients' = [lClients EXCEPT ![hRoom[c]] = Append(@, c)]
            /\ UNCHANGED hClosed
    /\ UNCHANGED <<rmMu, roomMu, hToken, hRoom, hReads, hWritten,
                   lTable, lNextRoom, lFrames, swPc, swVisit, swCur>>
    /\ UNCHANGED <<relayVars, recvVars, sendVars, cmdVars, wireVars, pairVars>>

\* AddClient: room.mu.Lock(), the check and the append, room.mu.Unlock(); a
\* refused handler closes its connection and returns
LockedAddClient(c) ==
    /\ hPc[c] = "wantAdd"
    /\ roomMu[hRoom[c]] = NoThread
    /\ IF Len(lClients[hRoom[c]]) >= RoomCapacity
       THEN /\ hPc' = [hPc EXCEPT ![c] = "rejected"]
            /\ hClosed' = [hClosed EXCEPT ![c] = TRUE]
            /\ UNCHANGED lClients
       ELSE /\ hPc' = [hPc EXCEPT ![c] = "read"]
            /\ lClients' = [lClients EXCEPT ![hRoom[c]] = Append(@, c)]
            /\ UNCHANGED hClosed
    /\ UNCHANGED <<rmMu, roomMu, hToken, hRoom, hReads, hWritten,
                   lTable, lNextRoom, lFrames, swPc, swVisit, swCur>>
    /\ UNCHANGED <<relayVars, recvVars, sendVars, cmdVars, wireVars, pairVars>>

\* conn.ReadMessage() returns a binary frame, the next of this connection;
\* the handler reaches room.mu.Lock() in Broadcast
ReadFrame(c) ==
    /\ hPc[c] = "read"
    /\ ~hClosed[c]
    /\ lFrames < MaxReads
    /\ lFrames' = lFrames + 1
    /\ hReads' = [hReads EXCEPT ![c] = @ + 1]
    /\ hPc' = [hPc EXCEPT ![c] = "wantBroadcast"]
    /\ UNCHANGED <<rmMu, roomMu, hToken, hRoom, hClosed, hWritten,
                   lTable, lClients, lNextRoom, swPc, swVisit, swCur>>
    /\ UNCHANGED <<relayVars, recvVars, sendVars, cmdVars, wireVars, pairVars>>

\* Broadcast: room.mu.Lock(); the handler is now in the loop of WriteMessage
\* calls, each of which may block on the network
BroadcastLock(c) ==
    /\ hPc[c] = "wantBroadcast"
    /\ roomMu[hRoom[c]] = NoThread
    /\ roomMu' = [roomMu EXCEPT ![hRoom[c]] = c]
    /\ hPc' = [hPc EXCEPT ![c] = "writing"]
    /\ UNCHANGED <<rmMu, hToken, hRoom, hClosed, hReads, hWritten,
                   lTable, lClients, lNextRoom, lFrames, swPc, swVisit, swCur>>
    /\ UNCHANGED <<relayVars, recvVars, sendVars, cmdVars, wireVars, pairVars>>

\* mutant of BroadcastWrite: the frame is written to each target twice
BroadcastWriteTwice(c) ==
    /\ hPc[c] = "writing"
    /\ hWritten' = [d \in Conns |->
                      IF d # c /\ d \in SeqToSet(lClients[hRoom[c]]) /\ ~hClosed[d]
                      THEN hWritten[d] \o <<<<c, hReads[c]>>, <<c, hReads[c]>>>>
                      ELSE hWritten[d]]
    /\ roomMu' = [roomMu EXCEPT ![hRoom[c]] = NoThread]
    /\ hPc' = [hPc EXCEPT ![c] = "read"]
    /\ UNCHANGED <<rmMu, hToken, hRoom, hClosed, hReads,
                   lTable, lClients, lNextRoom, lFrames, swPc, swVisit, swCur>>
    /\ UNCHANGED <<relayVars, recvVars, sendVars, cmdVars, wireVars, pairVars>>

\* Broadcast: the WriteMessage calls have returned, on every client of the
\* room but the sender (a write on a closed connection fails and its result
\* is dropped); room.mu.Unlock(), and the handler reads again
BroadcastWrite(c) ==
    /\ hPc[c] = "writing"
    /\ hWritten' = [d \in Conns |->
                      IF d # c /\ d \in SeqToSet(lClients[hRoom[c]]) /\ ~hClosed[d]
                      THEN Append(hWritten[d], <<c, hReads[c]>>)
                      ELSE hWritten[d]]
    /\ roomMu' = [roomMu EXCEPT ![hRoom[c]] = NoThread]
    /\ hPc' = [hPc EXCEPT ![c] = "read"]
    /\ UNCHANGED <<rmMu, hToken, hRoom, hClosed, hReads,
                   lTable, lClients, lNextRoom, lFrames, swPc, swVisit, swCur>>
    /\ UNCHANGED <<relayVars, recvVars, sendVars, cmdVars, wireVars, pairVars>>

\* conn.ReadMessage() returns an error and the loop breaks; the handler
\* reaches room.mu.Lock() of the isEmpty check
ReadError(c) ==
    /\ hPc[c] = "read"
    /\ hPc' = [hPc EXCEPT ![c] = "wantCheck"]
    /\ UNCHANGED <<rmMu, roomMu, hToken, hRoom, hClosed, hReads, hWritten,
                   lTable, lClients, lNextRoom, lFrames, swPc, swVisit, swCur>>
    /\ UNCHANGED <<relayVars, recvVars, sendVars, cmdVars, wireVars, pairVars>>

\* mutant of LockedCheckEmpty: room.mu is not unlocked after the check
LockedCheckEmptyKeepsLock(c) ==
    /\ hPc[c] = "wantCheck"
    /\ roomMu[hRoom[c]] = NoThread
    /\ roomMu' = [roomMu EXCEPT ![hRoom[c]] = c]
    /\ hPc' = [hPc EXCEPT ![c] = IF Len(lClients[hRoom[c]]) = 0
                                 THEN "wantDelete" ELSE "wantRemove"]
    /\ UNCHANGED <<rmMu, hToken, hRoom, hClosed, hReads, hWritten,
                   lTable, lClients, lNextRoom, lFrames, swPc, swVisit, swCur>>
    /\ UNCHANGED <<relayVars, recvVars, sendVars, cmdVars, wireVars, pairVars>>

\* room.mu.Lock(); isEmpty := len(room.clients) == 0; room.mu.Unlock(); the
\* handler goes on to rm.mu.Lock() in DeleteRoom if isEmpty, and else to
\* room.mu.Lock() in the deferred RemoveClient
LockedCheckEmpty(c) ==
    /\ hPc[c] = "wantCheck"
    /\ roomMu[hRoom[c]] = NoThread
    /\ hPc' = [hPc EXCEPT ![c] = IF Len(lClients[hRoom[c]]) = 0
                                 THEN "wantDelete" ELSE "wantRemove"]
    /\ UNCHANGED <<rmMu, roomMu, hToken, hRoom, hClosed, hReads, hWritten,
                   lTable, lClients, lNextRoom, lFrames, swPc, swVisit, swCur>>
    /\ UNCHANGED <<relayVars, recvVars, sendVars, cmdVars, wireVars, pairVars>>

\* DeleteRoom under rm.mu, then the deferred calls: RemoveClient under
\* room.mu and conn.Close()
LockedLeave(c) ==
    /\ hPc[c] \in {"wantDelete", "wantRemove"}
    /\ IF hPc[c] = "wantDelete"
       THEN /\ rmMu = NoThread
            /\ lTable' = [lTable EXCEPT ![hToken[c]] = NoRoom]
            /\ hPc' = [hPc EXCEPT ![c] = "wantRemove"]
            /\ UNCHANGED <<lClients, hClosed>>
       ELSE /\ roomMu[hRoom[c]] = NoThread
            /\ lClients' = [lClients EXCEPT ![hRoom[c]] = RemoveFirst(@, c)]
            /\ hClosed' = [hClosed EXCEPT ![c] = TRUE]
            /\ hPc' = [hPc EXCEPT ![c] = "done"]
            /\ UNCHANGED lTable
    /\ UNCHANGED <<rmMu, roomMu, hToken, hRoom, hReads, hWritten,
                   lNextRoom, lFrames, swPc, swVisit, swCur>>
    /\ UNCHANGED <<relayVars, recvVars, sendVars, cmdVars, wireVars, pairVars>>

\* cleanupLoop receives a tick: rm.mu.Lock(), and the range loop over
\* rm.rooms starts (no handler keeps rm.mu across a blocking call, so the
\* wait for it ends)
CleanupLock ==
    /\ swPc = "idle"
    /\ rmMu = NoThread
    /\ rmMu' = Sweeper
    /\ swVisit' = {t \in Tokens : lTable[t] # NoRoom}
    /\ swPc' = "inTable"
    /\ UNCHANGED <<roomMu, hPc, hToken, hRoom, hClosed, hReads, hWritten,
                   lTable, lClients, lNextRoom, lFrames, swCur>>
    /\ UNCHANGED <<relayVars, recvVars, sendVars, cmdVars, wireVars, pairVars>>

\* one iteration of the range loop: the room of token t is older than the
\* ceiling or not (handlers are arbitrarily slow, so any room may be); an
\* expired room takes cleanupLoop to room.mu.Lock(), with rm.mu held
CleanupVisit(t, expired) ==
    /\ swPc = "inTable"
    /\ t \in swVisit
    /\ IF expired
       THEN /\ swCur' = t
            /\ swPc' = "wantRoom"
            /\ UNCHANGED swVisit
       ELSE /\ swVisit' = swVisit \ {t}
            /\ UNCHANGED <<swCur, swPc>>
    /\ UNCHANGED <<rmMu, roomMu, hPc, hToken, hRoom, hClosed, hReads, hWritten,
                   lTable, lClients, lNextRoom, lFrames>>
    /\ UNCHANGED <<relayVars, recvVars, sendVars, cmdVars, wireVars, pairVars>>

\* room.mu.Lock(), conn.Close() on every client, room.mu.Unlock(),
\* delete(rm.rooms, token), all with rm.mu held
CleanupRoom ==
    /\ swPc = "wantRoom"
    /\ roomMu[lTable[swCur]] = NoThread
    /\ hClosed' = [d \in Conns |-> hClosed[d] \/ d \in SeqToSet(lClients[lTable[swCur]])]
    /\ lTable' = [lTable EXCEPT ![swCur] = NoRoom]
    /\ swVisit' = swVisit \ {swCur}
    /\ swPc' = "inTable"
    /\ swCur' = 0
    /\ UNCHANGED <<rmMu, roomMu, hPc, hToken, hRoom, hReads, hWritten,
                   lClients, lNextRoom, lFrames>>
    /\ UNCHANGED <<relayVars, recvVars, sendVars, cmdVars, wireVars, pairVars>>

\* the range loop is over: rm.mu.Unlock(), and cleanupLoop waits for a tick
CleanupUnlock ==
    /\ swPc = "inTable"
    /\ swVisit = {}
    /\ rmMu' = NoThread
    /\ swPc' = "idle"
    /\ UNCHANGED <<roomMu, hPc, hToken, hRoom, hClosed, hReads, hWritten,
                   lTable, lClients, lNextRoom, lFrames, swVisit, swCur>>
    /\ UNCHANGED <<relayVars, recvVars, sendVars, cmdVars, wireVars, pairVars>>

LocksNext ==
    \/ \E c \in Conns, t \in Tokens : HandlerArrives(c, t)
    \/ \E c \in Conns : LockedGetOrCreateRoom(c)
    \/ \E c \in Conns : LockedAddClient(c)
    \/ \E c \in Conns : ReadFrame(c)
    \/ \E c \in Conns : BroadcastLock(c)
    \/ \E c \in Conns : BroadcastWrite(c)
    \/ \E c \in Conns : ReadError(c)
    \/ \E c \in Conns : LockedCheckEmpty(c)
    \/ \E c \in Conns : LockedLeave(c)
    \/ CleanupLock
    \/ \E t \in Tokens, expired \in BOOLEAN : CleanupVisit(t, expired)
    \/ CleanupRoom
    \/ CleanupUnlock

\* ------------------------------ the two ends meet in the room of the token
Parties == {"sender", "receiver"}

\* NewReadyMessage()
ReadyMessage == Message("Ready", <<>>, 0, 0, NoChecksum)

PairInit ==
    /\ pairRelayPc = [p \in Parties |-> "none"]
    /\ pairClients = <<>>
    /\ pairOutbox = <<>>
    /\ pairInbox = <<>>
    /\ pairRecvPc = "connect"

\* Receiver.Connect, the Dial: on success the relay has upgraded the
\* connection and its handler is on its way to AddClient
ReceiverDial(ok) ==
    /\ pairRecvPc = "connect"
    /\ IF ok
       THEN /\ pairRecvPc' = "dialled"
            /\ pairRelayPc' = [pairRelayPc EXCEPT !["receiver"] = "add"]
       ELSE /\ pairRecvPc' = "failed"
            /\ UNCHANGED pairRelayPc
    /\ UNCHANGED <<pairClients, pairOutbox, pairInbox>>
    /\ UNCHANGED <<relayVars, recvVars, sendVars, cmdVars, wireVars, lockVars>>

\* Receiver.Connect after the Dial: the Ready message is encrypted and
\* written to the connection
ReceiverSendReady(encOk, writeOk) ==
    /\ pairRecvPc = "dialled"
    /\ IF encOk /\ writeOk
       THEN /\ pairOutbox' = Append(pairOutbox, FrameOf(ReadyMessage))
            /\ pairRecvPc' = "connected"
       ELSE /\ pairRecvPc' = "failed"
            /\ UNCHANGED pairOutbox
    /\ UNCHANGED <<pairRelayPc, pairClients, pairInbox>>
    /\ UNCHANGED <<relayVars, recvVars, sendVars, cmdVars, wireVars, lockVars>>

\* handleWebSocket of the connection of p: room.AddClient(conn)
PairAddClient(p) ==
    /\ pairRelayPc[p] = "add"
    /\ IF Len(pairClients) >= RoomCapacity
       THEN /\ pairRelayPc' = [pairRelayPc EXCEPT ![p] = "rejected"]
            /\ UNCHANGED pairClients
       ELSE /\ pairRelayPc' = [pairRelayPc EXCEPT ![p] = "read"]
            /\ pairClients' = Append(pairClients, p)
    /\ UNCHANGED <<pairOutbox, pairInbox, pairRecvPc>>
    /\ UNCHANGED <<relayVars, recvVars, sendVars, cmdVars, wireVars, lockVars>>

\* mutant of PairBroadcast: the frame is kept for a connection that has
\* not joined yet
PairBroadcastBuffered ==
    /\ pairRelayPc["receiver"] = "read"
    /\ pairOutbox # <<>>
    /\ pairOutbox' = Tail(pairOutbox)
    /\ pairInbox' = Append(pairInbox, Head(pairOutbox))
    /\ UNCHANGED <<pairRelayPc, pairClients, pairRecvPc>>
    /\ UNCHANGED <<relayVars, recvVars, sendVars, cmdVars, wireVars, lockVars>>

\* handleWebSocket of the receiver's connection: ReadMessage returns the
\* frame and Broadcast writes it to the clients of the room at that moment,
\* the receiver's own connection left out
PairBroadcast ==
    /\ pairRelayPc["receiver"] = "read"
    /\ pairOutbox # <<>>
    /\ pairOutbox' = Tail(pairOutbox)
    /\ pairInbox' = IF "sender" \in SeqToSet(pairClients)
                    THEN Append(pairInbox, Head(pairOutbox))
                    ELSE pairInbox
    /\ UNCHANGED <<pairRelayPc, pairClients, pairRecvPc>>
    /\ UNCHANGED <<relayVars, recvVars, sendVars, cmdVars, wireVars, lockVars>>

\* Sender.Connect with a Dial that succeeds: the relay has upgraded the
\* connection and its handler is on its way to AddClient
SenderDial ==
    /\ sPc = "connect"
    /\ sAttempt < sRetries
    /\ sDials' = sDials + 1
    /\ sPc' = "connected"
    /\ pairRelayPc' = [pairRelayPc EXCEPT !["sender"] = "add"]
    /\ UNCHANGED <<sRetries, sChunkSize, sAttempt, sSleeps, sLastErr, sConnErr, sFileSize,
                   sOffset, sBytesSent, sCtxDone, sSent, sProgress, sResult>>
    /\ UNCHANGED <<pairClients, pairOutbox, pairInbox, pairRecvPc>>
    /\ UNCHANGED <<relayVars, recvVars, cmdVars, wireVars, lockVars>>

\* what the ReadMessage of WaitForReceiver returns on the sender's
\* connection: the first frame written to it, or the error of the read
\* deadline while none has been
FrameRead ==
    IF pairInbox = <<>> THEN "timeout"
    ELSE IF ~DecryptOk(Head(pairInbox), SessionKey) THEN "undecryptable"
    ELSE DecodeMessage(DecryptChunk(Head(pairInbox), SessionKey)).type

\* Sender.WaitForReceiver on the sender's connection to the relay
SenderWait ==
    /\ sPc = "connected"
    /\ sWaitFrame' = FrameRead
    /\ sWaitErr' = WaitResult(FrameRead)
    /\ sPc' = IF WaitResult(FrameRead) = "nil" THEN "ready" ELSE "waitfailed"
    /\ UNCHANGED <<sRetries, sChunkSize, sAttempt, sDials, sSleeps, sLastErr, sConnErr,
                   sFileSize, sOffset, sBytesSent, sCtxDone, sSent, sProgress, sResult>>
    /\ UNCHANGED <<bFiles, bIndex, emitted, history>>
    /\ UNCHANGED <<relayVars, recvVars, wireVars, lockVars, pairVars>>

PairNext ==
    \/ \E ok \in BOOLEAN : ReceiverDial(ok)
    \/ \E encOk, writeOk \in BOOLEAN : ReceiverSendReady(encOk, writeOk)
    \/ \E p \in Parties : PairAddClient(p)
    \/ PairBroadcast
    \/ SenderDial
    \/ SenderWait

\* --------------------------------------------------------- specifications
\* the sender before NewSender is given a configuration and a file
SendIdle ==
    /\ sPc = "connect"
    /\ sRetries = DefaultRetries
    /\ sChunkSize = DefaultChunkSize
    /\ sFileSize = 0
    /\ sAttempt = 0
    /\ sDials = 0
    /\ sSleeps = <<>>
    /\ sLastErr = NoErr
    /\ sConnErr = NoErr
    /\ sOffset = 0
    /\ sBytesSent = 0
    /\ sCtxDone = FALSE
    /\ sSent = <<>>
    /\ sProgress = <<>>
    /\ sResult = "none"

\* cmdSend has not run
CmdIdle ==
    /\ sWaitFrame = "none"
    /\ sWaitErr = "none"
    /\ bFiles = <<>>
    /\ bIndex = 0
    /\ emitted = <<>>
    /\ history = <<>>

\* nothing has been written to either connection
WireIdle ==
    /\ fwd = 0
    /\ linkDown = FALSE
    /\ rInbox = <<>>

\* the relay alone
InitRelay == RelayInit /\ RecvInit /\ SendIdle /\ CmdIdle /\ WireIdle /\ LockInit /\ PairInit
SpecRelay == InitRelay /\ [][RelayNext]_vars

\* one call of Receiver.ReceiveFile, fed any frames
InitReceiver == RelayInit /\ RecvInit /\ SendIdle /\ CmdIdle /\ WireIdle /\ LockInit /\ PairInit
SpecReceiver == InitReceiver /\ [][RecvNext]_vars

\* one Sender: Connect, then SendFile of one file
InitSender == RelayInit /\ RecvInit /\ SendInit /\ CmdIdle /\ WireIdle /\ LockInit /\ PairInit
SpecSender == InitSender /\ [][SendNext]_vars

\* one Sender and one Receiver with the same token and key, the relay between
InitTransfer ==
    /\ RelayInit /\ RecvInit /\ CmdIdle /\ WireIdle /\ LockInit /\ PairInit
    /\ SendInit /\ sRetries = DefaultRetries
SpecTransfer == InitTransfer /\ [][TransferNext]_vars

\* cmdSend and cmdReceive started with the same token and key, in any order
InitPairing ==
    /\ RelayInit /\ RecvInit /\ CmdIdle /\ WireIdle /\ LockInit /\ PairInit
    /\ SendInit
SpecPairing == InitPairing /\ [][PairNext]_vars

\* the relay with its locks: the handlers and cleanupLoop
InitLocks == RelayInit /\ RecvInit /\ SendIdle /\ CmdIdle /\ WireIdle /\ LockInit /\ PairInit
SpecLocks == InitLocks /\ [][LocksNext]_vars

\* cmdSend: Connect, WaitForReceiver, then SendFile for each path in turn;
\* the retry count is the default and the first dial succeeds (the retries
\* are those of SpecSender)
InitBatch ==
    /\ RelayInit /\ RecvInit /\ WireIdle /\ LockInit /\ PairInit
    /\ SendInit /\ sRetries = DefaultRetries
    /\ BatchInit
SpecBatch == InitBatch /\ [][BatchNext]_vars

\* -------------------------------------------------------------- relay claims
\* a connection that AddClient admitted, whose handler is still in its read
\* loop and which nobody has closed
Accepted(c) == pc[c] \in {"read", "broadcast"} /\ ~connClosed[c]

\* C1: session capacity per token. At no time are more than two connections
\* accepted (joined, not yet left, not closed) for the same token.
C1_SessionCapacity ==
    \A t \in Tokens :
        Cardinality({c \in Conns : Accepted(c) /\ connToken[c] = t}) <= RoomCapacity

\* C2: destroy on empty. Once a participant's departure is over and it has
\* left its session without participants, that session is no longer the one
\* registered in the table under its token.
C2_DestroyOnEmpty ==
    \A c \in Conns :
        (pc[c] = "done" /\ roomClients[connRoom[c]] = <<>>)
            => rooms[connToken[c]] # connRoom[c]

\* C3: expiry sweep. Every iteration of the sweep removes the room it visits
\* and closes all the room's connections if the room is older than RoomTTL,
\* and leaves the room and every connection alone otherwise; and whenever the
\* sweep has caught up with the ticker, no room of the table is older than
\* RoomTTL.
C3_ExpirySweep ==
    [][ /\ \A t \in Tokens :
             (t \in toVisit /\ t \notin toVisit') =>
                 IF roomAge[rooms[t]] > RoomTTL
                 THEN /\ rooms'[t] = NoRoom
                      /\ \A i \in 1..Len(roomClients[rooms[t]]) :
                             connClosed'[roomClients[rooms[t]][i]]
                 ELSE /\ rooms'[t] = rooms[t]
                      /\ connClosed' = connClosed
        /\ (~tickPending' /\ toVisit' = {}) =>
               \A t \in Tokens :
                   rooms'[t] # NoRoom => roomAge'[rooms'[t]] <= RoomTTL
      ]_vars

\* C3 witness: the sweep has removed an expired room and closed a connection
\* whose handler is still in its read loop
C3_Witness ==
    \E c \in Conns :
        /\ pc[c] = "read" /\ connClosed[c]
        /\ rooms[connToken[c]] = NoRoom
        /\ roomAge[connRoom[c]] > RoomTTL

\* C4: forwarding targets. A broadcast of the frame read from connection c
\* appends exactly that frame to every other connection of c's room and to
\* nothing else: not to c, and not to a connection of another room or token;
\* and no other step writes a frame.
C4_ForwardingTargets ==
    [][ /\ \A c \in Conns :
             (pc[c] = "broadcast" /\ pc'[c] = "read") =>
                 \A d \in Conns :
                     /\ written'[d] =
                            IF d # c /\ \E i \in 1..Len(roomClients[connRoom[c]]) :
                                            roomClients[connRoom[c]][i] = d
                            THEN Append(written[d], cur[c])
                            ELSE written[d]
                     /\ written'[d] # written[d] =>
                            /\ connToken[d] = connToken[c]
                            /\ connRoom[d] = connRoom[c]
        /\ written' # written => \E c \in Conns : pc[c] = "broadcast" /\ pc'[c] = "read"
      ]_vars

\* C4 witness: a frame has been forwarded to a connection while a connection
\* of a room of another token is in its read loop and has received nothing
C4_Witness ==
    \E d, e \in Conns :
        /\ written[d] # <<>>
        /\ pc[e] = "read" /\ ~connClosed[e]
        /\ connToken[e] # connToken[d]
        /\ written[e] = <<>>

\* ----------------------------------------------------------- receiver claims
\* C5: no partial file. When ReceiveFile has returned, every file in the
\* destination directory is the file it returned with success, and its
\* content has the checksum the Metadata declared.
C5_NoPartialFile ==
    rPc = "returned" =>
        \A f \in Files :
            disk[f] # Absent =>
                /\ rResult = "ok"
                /\ f = rDestPath
                /\ rMetaChecksum # NoChecksum
                /\ ComputeChecksum(disk[f]) = rMetaChecksum

\* C9 as claimed: if the cancellation signal was raised before ReceiveFile
\* returned, it returned the cancellation error and the file is deleted.
C9_CancelAnyMoment ==
    (rPc = "returned" /\ rCtxDone) =>
        /\ rResult = "cancelled"
        /\ rFile => disk[rDestPath] = Absent

\* C9 as amended: the signal is polled at the top of each loop iteration.
\* Seen raised there, ReceiveFile deletes the open destination file and
\* returns the cancellation error; it returns that error in no other case.
C9_CancelAtCheck ==
    [][ /\ (rPc = "check" /\ rCtxDone) =>
               /\ rPc' = "returned"
               /\ rResult' = "cancelled"
               /\ rFile => disk'[rDestPath] = Absent
        /\ (rResult' = "cancelled" /\ rResult # "cancelled") =>
               (rPc = "check" /\ rCtxDone)
      ]_vars

\* C9 witness: cancelled after a chunk was written, and the file is gone
C9_Witness ==
    /\ rResult = "cancelled"
    /\ rFile
    /\ rFileContent # <<>>
    /\ disk[rDestPath] = Absent

\* C10: checksum gate. When ReceiveFile has returned on a Complete message
\* and the Metadata declared a checksum: if the checksum of the accumulated
\* bytes equals the declared one it returned success and the file holds those
\* bytes, otherwise it failed with the mismatch and the file is deleted.
C10_ChecksumGate ==
    (rPc = "returned" /\ rMsgType = "Complete" /\ rMetaChecksum # NoChecksum) =>
        IF ComputeChecksum(rFileContent) = rMetaChecksum
        THEN /\ rResult = "ok"
             /\ disk[rDestPath] = rFileContent
        ELSE /\ rResult = "checksum_mismatch"
             /\ disk[rDestPath] = Absent

\* C10 witness: the declared checksum is that of other bytes of the same
\* length as the bytes received (a payload altered on the way), and the
\* mismatch was found at Complete
C10_Witness ==
    /\ rResult = "checksum_mismatch"
    /\ rFileContent # <<>>
    /\ \E b \in SeqsUpTo(MaxContent) :
           /\ Len(b) = Len(rFileContent)
           /\ b # rFileContent
           /\ ComputeChecksum(b) = rMetaChecksum
    /\ disk[rDestPath] = Absent

\* C13: receiver message order. ReceiveFile returns success only on a
\* Complete that follows a Metadata; a Chunk or a Complete that arrives
\* before any Metadata makes it fail.
C13_MessageOrder ==
    /\ (rPc = "returned" /\ rResult = "ok") => (rMsgType = "Complete" /\ rFile)
    /\ (rPc = "returned" /\ rMsgType \in {"Chunk", "Complete"} /\ ~rFile) => rResult # "ok"

\* C15: peer abort. A Cancel or Error message, whatever came before it,
\* makes ReceiveFile delete the destination file if one is open, leave every
\* other file alone and return the peer's error; once returned, ReceiveFile
\* reads no frame and touches no file.
C15_PeerAbort ==
    [][ /\ (rPc = "read" /\ rFrames' = rFrames + 1 /\ rMsgType' \in {"Cancel", "Error"}) =>
               /\ rPc' = "returned"
               /\ rResult' = IF rMsgType' = "Cancel" THEN "peer_cancel" ELSE "peer_error"
               /\ rFile => disk'[rDestPath] = Absent
               /\ \A f \in Files : f # rDestPath => disk'[f] = disk[f]
        /\ rPc = "returned" => UNCHANGED <<rPc, rFrames, rResult, disk>>
      ]_vars

\* C15 witness: the peer's Cancel arrived after a chunk had been written, and
\* the file is gone
C15_Witness ==
    /\ rPc = "returned"
    /\ rResult = "peer_cancel"
    /\ rFile
    /\ rFileContent # <<>>
    /\ disk[rDestPath] = Absent

\* ------------------------------------------------------------- sender claims
\* C6: retry exhaustion. With retries = 3 and every Dial failing, Connect
\* has dialled exactly 3 times and slept 2, 4 and 6 seconds when it returns
\* the error, which carries the last failure.
C6_RetryExhaustion ==
    (sPc = "connfailed" /\ sRetries = 3) =>
        /\ sDials = 3
        /\ sSleeps = <<2, 4, 6>>
        /\ sConnErr = sLastErr /\ sConnErr # NoErr

IsChunk(m) == m.type = "Chunk"
IsCancel(m) == m.type = "Cancel"
IsComplete(m) == m.type = "Complete"

RECURSIVE ConcatPayloads(_)
ConcatPayloads(ms) ==
    IF ms = <<>> THEN <<>> ELSE ms[1].payload \o ConcatPayloads(Tail(ms))

\* the least k with k * chunkSize >= size
CeilDiv(size, chunkSize) ==
    CHOOSE k \in 0..size : k * chunkSize >= size /\ \A j \in 0..(k - 1) : j * chunkSize < size

\* C7: sender frame sequence. When SendFile has returned success, the frames
\* it wrote are one Metadata, then ceil(size / chunkSize) Chunks, then one
\* Complete; every Chunk has at most chunkSize bytes and all but the last
\* exactly chunkSize; the Chunks' payloads in order are the file; Metadata
\* declares the file size and the number of Chunks written. For 150000 bytes
\* and chunks of 65536 the lengths are 65536, 65536, 18928 and the count 3;
\* an empty file has no Chunk.
C7_FrameSequence ==
    /\ sResult = "ok" =>
          LET chunks == SelectSeq(sSent, IsChunk)
              n == Len(chunks)
          IN  /\ Len(sSent) = n + 2
              /\ sSent[1].type = "Metadata"
              /\ sSent[1].size = sFileSize
              /\ sSent[1].chunks = n
              /\ \A i \in 2..(n + 1) : sSent[i].type = "Chunk"
              /\ sSent[n + 2].type = "Complete"
              /\ n = CeilDiv(sFileSize, sChunkSize)
              /\ \A i \in 1..n :
                     /\ Len(chunks[i].payload) <= sChunkSize
                     /\ i < n => Len(chunks[i].payload) = sChunkSize
              /\ ConcatPayloads(chunks) = FileContent
    /\ TotalChunks(150000, 65536) = 3
    /\ ReadLen(150000, 0, 65536) = 65536
    /\ ReadLen(150000, 65536, 65536) = 65536
    /\ ReadLen(150000, 131072, 65536) = 18928
    /\ TotalChunks(0, 65536) = 0

\* C7 witness: a file sent in three Chunks, the last one short
C7_Witness ==
    /\ sResult = "ok"
    /\ Len(sSent) = 5
    /\ Len(sSent[4].payload) < sChunkSize
    /\ Len(sSent[4].payload) > 0

\* C8 as claimed: a SendFile that returned the cancellation error has sent
\* exactly one Cancel message, as its last frame, and no Complete.
C8_ExactlyOneCancel ==
    sResult = "cancelled" =>
        /\ Len(SelectSeq(sSent, IsCancel)) = 1
        /\ sSent[Len(sSent)].type = "Cancel"
        /\ Len(SelectSeq(sSent, IsComplete)) = 0

\* C8 as amended: the signal is checked before each chunk read. Seen raised,
\* SendFile writes at most one Cancel message (none if encrypting or writing
\* it fails) and returns the cancellation error; a Chunk is only written when
\* the check found the signal not raised; a Cancel is the last frame of a
\* file and is never together with a Complete; nothing is written after
\* SendFile has returned.
C8_SenderCancellation ==
    [][ /\ (sPc = "loop" /\ sCtxDone) =>
               /\ sPc' = "returned"
               /\ sResult' = "cancelled"
               /\ sSent' = sSent \/ sSent' = Append(sSent, CancelMessage)
        /\ (sResult' = "cancelled" /\ sResult # "cancelled") => (sPc = "loop" /\ sCtxDone)
        /\ (sSent' # sSent /\ sSent'[Len(sSent')].type = "Chunk") => ~sCtxDone
        /\ sPc = "returned" => sSent' = sSent
        /\ \A i \in 1..Len(sSent') :
               sSent'[i].type = "Cancel" =>
                   /\ i = Len(sSent')
                   /\ sResult' = "cancelled"
                   /\ Len(SelectSeq(sSent', IsComplete)) = 0
      ]_vars

\* C8 witness: cancelled in mid-stream, after a Chunk and with bytes left,
\* and the Cancel message went out
C8_Witness ==
    /\ sResult = "cancelled"
    /\ sOffset > 0 /\ sOffset < sFileSize
    /\ Len(sSent) >= 3
    /\ sSent[Len(sSent)].type = "Cancel"

\* the bytes of the first i chunks
BytesOfFirst(chunks, i) == Len(ConcatPayloads(SubSeq(chunks, 1, i)))

\* C17: sender progress. progressFn has been called once for each Chunk
\* written; call i is given the bytes of the first i chunks and the file
\* size; the bytes are positive, strictly increasing and never above the
\* file size, and they are the file size once SendFile has returned success.
C17_SenderProgress ==
    LET chunks == SelectSeq(sSent, IsChunk)
    IN  /\ Len(sProgress) = Len(chunks)
        /\ \A i \in 1..Len(sProgress) :
               /\ sProgress[i][1] = BytesOfFirst(chunks, i)
               /\ sProgress[i][2] = sFileSize
               /\ sProgress[i][1] > 0
               /\ sProgress[i][1] <= sFileSize
               /\ i > 1 => sProgress[i][1] > sProgress[i - 1][1]
        /\ (sResult = "ok" /\ sProgress # <<>>) =>
               sProgress[Len(sProgress)][1] = sFileSize

\* C17 witness: a file sent whole in several chunks
C17_Witness ==
    /\ sResult = "ok"
    /\ Len(sProgress) >= 2
    /\ sProgress[Len(sProgress)][1] = sFileSize

\* C14: WaitForReceiver. It reads one frame; it succeeds, and SendFile is
\* reached, only if that frame decrypts and decodes to a Ready message; a
\* read timeout, a decrypt failure, a decode failure and a message of
\* another type each make it return its error; the sender has written no
\* frame when WaitForReceiver returns.
C14_WaitForReceiver ==
    /\ sPc \in {"ready", "loop", "returned"} => (sWaitFrame = "Ready" /\ sWaitErr = "nil")
    /\ sWaitFrame = "Ready" => sWaitErr = "nil"
    /\ sWaitFrame = "timeout" => (sPc = "waitfailed" /\ sWaitErr = "timeout")
    /\ sWaitFrame = "undecryptable" => (sPc = "waitfailed" /\ sWaitErr = "decrypt")
    /\ sWaitFrame = "undecodable" => (sPc = "waitfailed" /\ sWaitErr = "decode")
    /\ sWaitFrame \in {"Metadata", "Chunk", "Complete", "Cancel", "Error"} =>
           (sPc = "waitfailed" /\ sWaitErr = "type")
    /\ (sPc \in {"waitfailed", "ready"}) => sSent = <<>>
    /\ sPc \in {"connect", "connfailed", "connected"} => sWaitFrame = "none"

\* C14 witness: WaitForReceiver read a well-formed message that is not Ready
C14_Witness ==
    /\ sPc = "waitfailed"
    /\ sWaitFrame = "Metadata"
    /\ sWaitErr = "type"
    /\ sSent = <<>>

\* ------------------------------------------------------------- batch claims
IsMetadata(m) == m.type = "Metadata"

\* cmdSend has returned
CmdSendReturned ==
    \/ sPc \in {"connfailed", "waitfailed", "done"}
    \/ sPc = "returned" /\ sResult # "ok"

\* files are sent one after another in argument order: the frames start with
\* a Metadata, a later Metadata comes right after a Complete, and the j-th
\* Metadata declares the size of the j-th path; no frame of a later file than
\* the current one has been written
SentInOrder ==
    /\ sSent # <<>> => sSent[1].type = "Metadata"
    /\ \A k \in 2..Len(sSent) :
           sSent[k].type = "Metadata" => sSent[k - 1].type = "Complete"
    /\ \A k \in 1..Len(sSent) :
           sSent[k].type = "Metadata" =>
               sSent[k].size = bFiles[Len(SelectSeq(SubSeq(sSent, 1, k), IsMetadata))]
    /\ Len(SelectSeq(sSent, IsMetadata)) <= bIndex
    /\ Len(SelectSeq(sSent, IsComplete)) \in {bIndex - 1, bIndex}

\* C16 as claimed: files go one after another in argument order, and when
\* cmdSend has returned the history holds exactly one record for each file
\* whose SendFile completed, in order, and none for the failed or later files.
C16_BatchRecords ==
    /\ SentInOrder
    /\ CmdSendReturned =>
           history = [i \in 1..Len(SelectSeq(sSent, IsComplete)) |-> HistEntry(i)]

\* C16 as amended: files go one after another in argument order; the batch
\* stops at the first SendFile that fails, after which nothing is written or
\* recorded; SaveEntry is called exactly once, in order, for each file whose
\* SendFile completed and for no other; the history holds those of these
\* entries whose SaveEntry succeeded, each at most once and in order.
C16_BatchSend ==
    [][ /\ SentInOrder'
        /\ emitted' = [i \in 1..Len(emitted') |-> HistEntry(i)']
        /\ Len(emitted') = IF sPc' = "done" THEN Len(bFiles') ELSE bIndex' - 1
        /\ CmdSendReturned' => Len(emitted') = Len(SelectSeq(sSent', IsComplete))
        /\ \A i \in 1..Len(history') :
               /\ \E j \in 1..Len(emitted') : history'[i] = emitted'[j]
               /\ i > 1 => history'[i - 1].file < history'[i].file
        /\ CmdSendReturned => UNCHANGED <<sSent, emitted, history, sPc>>
      ]_vars

\* C16 witness: the first file of a batch was recorded, the second failed
\* after its Metadata was written
C16_Witness ==
    /\ CmdSendReturned
    /\ bIndex = 2
    /\ sResult \notin {"ok", "none"}
    /\ Len(SelectSeq(sSent, IsMetadata)) = 2
    /\ history = <<HistEntry(1)>>

\* --------------------------------------------------------- end-to-end claims
ChunksSent == Len(SelectSeq(sSent, IsChunk))

\* the sender's signal was raised in SendFile with chunks still to send
CancelledMidStream ==
    /\ sCtxDone
    /\ sPc \in {"loop", "returned"}
    /\ ChunksSent < TotalChunks(sFileSize, sChunkSize)

\* C11 as claimed: when SendFile has returned the cancellation error after
\* the first chunks, a Cancel message is the sender's last frame, the relay
\* (if its writes succeed) has written it to the receiver once it has
\* forwarded everything, and a ReceiveFile that has returned has returned an
\* error and left no file.
C11_CancelDelivered ==
    (sResult = "cancelled" /\ ChunksSent >= 1) =>
        /\ sSent[Len(sSent)].type = "Cancel"
        /\ (fwd = Len(sSent) /\ ~linkDown) =>
               (rInbox # <<>> /\ rInbox[Len(rInbox)] = FrameOf(CancelMessage))
        /\ rPc = "returned" => (rResult # "ok" /\ \A f \in Files : disk[f] = Absent)

\* C11 as amended: when the sender's signal is raised with chunks still to
\* send, no Complete is ever written, SendFile returns an error (the
\* cancellation once the Metadata is out), ReceiveFile never returns success
\* and leaves no file when it returns; a Cancel, if one was written, is the
\* sender's last frame, and a receiver that reads it deletes its file and
\* returns the peer's cancellation.
C11_EndToEndCancel ==
    CancelledMidStream =>
        /\ Len(SelectSeq(sSent, IsComplete)) = 0
        /\ sResult # "ok"
        /\ (sPc = "returned" /\ sSent # <<>>) => sResult = "cancelled"
        /\ \A i \in 1..Len(sSent) : sSent[i].type = "Cancel" => i = Len(sSent)
        /\ rResult # "ok"
        /\ rPc = "returned" => \A f \in Files : disk[f] = Absent
        /\ rMsgType = "Cancel" => rResult = "peer_cancel"

\* C11 witness: cancelled after chunk 1 of 3, the Cancel reached the
\* receiver, which had written the chunk and has deleted the file
C11_Witness ==
    /\ TotalChunks(sFileSize, sChunkSize) = 3
    /\ ChunksSent = 1
    /\ sResult = "cancelled"
    /\ sSent[Len(sSent)].type = "Cancel"
    /\ rResult = "peer_cancel"
    /\ rFileContent # <<>>
    /\ disk[rDestPath] = Absent

\* C12: end-to-end integrity. When ReceiveFile has returned success, the
\* file it saved holds the bytes of the sender's file in order, and the
\* byte count of its Stats is the file size.
C12_EndToEndIntegrity ==
    rResult = "ok" =>
        /\ rDestPath \in Files
        /\ disk[rDestPath] = FileContent
        /\ rFileContent = FileContent
        /\ rBytesReceived = sFileSize

\* C12 witness: a file of several chunks was sent and received
C12_Witness ==
    /\ rResult = "ok"
    /\ sResult = "ok"
    /\ ChunksSent >= 2
    /\ disk[rDestPath] = FileContent

\* the locks a thread is about to take, and the thread that holds the lock
\* th waits for (NoThread when that lock is free or th requests none)
WantsTableLock(th) ==
    th \in Conns /\ hPc[th] \in {"wantTable", "wantDelete"}

WantsRoomLock(th) ==
    IF th = Sweeper THEN swPc = "wantRoom"
    ELSE hPc[th] \in {"wantAdd", "wantBroadcast", "wantCheck", "wantRemove"}

HoldsRoomLock(th) == \E r \in Rooms : roomMu[r] = th

WaitsFor(th) ==
    IF WantsTableLock(th) THEN rmMu
    ELSE IF WantsRoomLock(th)
         THEN IF th = Sweeper THEN roomMu[lTable[swCur]] ELSE roomMu[hRoom[th]]
         ELSE NoThread

\* a set of threads each of which waits for a lock that one of them holds
LockDeadlock ==
    \E S \in SUBSET Threads :
        /\ S # {}
        /\ \A th \in S : WaitsFor(th) \in S

\* C18: lock ordering and deadlock freedom in the relay. No thread requests
\* the table lock rm.mu while it holds a room lock; a thread that requests
\* a room lock while it holds a lock holds rm.mu only, so that whenever
\* both are held rm.mu was taken first; rm.mu is only ever acquired by a
\* thread that holds no room lock; and no reachable state of the handlers
\* and cleanupLoop is a deadlock on these locks.
C18_LockOrder ==
    /\ [](\A th \in Threads : WantsTableLock(th) => ~HoldsRoomLock(th))
    /\ [](\A th \in Threads : WantsRoomLock(th) => ~HoldsRoomLock(th))
    /\ [](swPc \in {"inTable", "wantRoom"} <=> rmMu = Sweeper)
    /\ [][rmMu' # rmMu /\ rmMu' # NoThread => ~HoldsRoomLock(rmMu')]_vars
    /\ []~LockDeadlock

\* C18 witness: cleanupLoop holds rm.mu and waits for the lock of a room in
\* which a handler is writing, while another handler waits for rm.mu
C18_Witness ==
    /\ rmMu = Sweeper
    /\ swPc = "wantRoom"
    /\ WaitsFor(Sweeper) \in Conns
    /\ hPc[WaitsFor(Sweeper)] = "writing"
    /\ \E c \in Conns : WantsTableLock(c) /\ WaitsFor(c) = Sweeper

\* handler a is inside Broadcast, in a WriteMessage to a peer of its room
InNetworkWrite(a) ==
    /\ hPc[a] = "writing"
    /\ \E d \in SeqToSet(lClients[hRoom[a]]) : d # a

\* thread th cannot proceed until a does: it waits for a lock that a
\* holds, or for a lock whose holder waits for a lock that a holds
BlockedBehind(th, a) ==
    \/ WaitsFor(th) = a
    \/ /\ WaitsFor(th) \in Threads
       /\ WaitsFor(WaitsFor(th)) = a

\* C19: cross-session independence. A forward of session A that is blocked
\* in a network write never keeps a join, leave or forward of a different
\* session B from proceeding, a running expiry sweep included, and rm.mu is
\* never held by a thread that waits for a room lock held across a write.
C19_CrossSessionIndependence ==
    /\ \A a \in Conns, b \in Conns :
          (InNetworkWrite(a) /\ hPc[b] # "start" /\ hToken[b] # hToken[a])
              => ~BlockedBehind(b, a)
    /\ \A a \in Conns :
          InNetworkWrite(a) => ~(rmMu = Sweeper /\ WaitsFor(Sweeper) = a)

\* the frames of connection c written on connection d, in the order of the
\* writes; a frame is named by its connection and its place among the
\* frames read from it
FramesFrom(d, c) == SelectSeq(hWritten[d], LAMBDA f : f[1] = c)

\* C20: relay order preservation. The binary frames read from one
\* connection are written to its peer in the order in which they were read,
\* each at most once: none is reordered or duplicated, whatever flows in
\* the opposite direction, and none is written that was not read.
C20_OrderPreserved ==
    \A c \in Conns, d \in Conns :
        LET fs == FramesFrom(d, c) IN
        /\ \A i \in 1..Len(fs) : fs[i][2] \in 1..hReads[c]
        /\ \A i \in 1..Len(fs), j \in 1..Len(fs) : i < j => fs[i][2] < fs[j][2]
        /\ c = d => fs = <<>>

\* C20 witness: several frames read from one connection have been written
\* to its peer
C20_Witness ==
    \E c \in Conns, d \in Conns :
        /\ c # d
        /\ hRoom[c] = hRoom[d]
        /\ hReads[c] >= 2
        /\ Len(FramesFrom(d, c)) = hReads[c]

\* C21: Connect stops at the first Dial that succeeds. It has then dialled
\* once more than it failed and slept once per failure, and it dials and
\* sleeps no more afterwards; it never dials more often than the retry
\* count; and it returns its error only when it has dialled that many times
\* and every Dial failed.
C21_ConnectStops ==
    /\ [](sDials <= sRetries)
    /\ [](sPc \notin {"connect", "connfailed"} =>
            /\ sDials = sAttempt + 1
            /\ Len(sSleeps) = sAttempt
            /\ sConnErr = NoErr)
    /\ [](sPc = "connfailed" =>
            /\ sDials = sRetries
            /\ sAttempt = sDials
            /\ sConnErr # NoErr)
    /\ [][sPc # "connect" =>
            /\ sDials' = sDials
            /\ sSleeps' = sSleeps
            /\ sPc' # "connect"]_vars

\* C21 witness: Connect has succeeded after a failed Dial, with attempts
\* to spare
C21_Witness ==
    /\ sPc = "connected"
    /\ sAttempt >= 1
    /\ sDials < sRetries
    /\ sSleeps = <<2>>

\* the connections added to room r and not yet removed by RemoveClient
Members(r) ==
    {c \in Conns : hRoom[c] = r /\ hPc[c] \in
        {"read", "wantBroadcast", "writing", "wantCheck", "wantDelete", "wantRemove"}}

\* C22: capacity counts current participants. The clients of a room are the
\* connections added and not yet removed, each once; the departure of a
\* connection removes that connection from its room and no other, and
\* closes and moves no other connection; a frame broadcast in the room is
\* written to every other open connection in it; a connection that asks
\* for a token registered in the table gets the room registered; and
\* AddClient accepts it when fewer than two connections are in the room at
\* that moment, however many have been there before.
C22_CurrentParticipants ==
    /\ [](\A r \in Rooms :
            /\ SeqToSet(lClients[r]) = Members(r)
            /\ Len(lClients[r]) = Cardinality(Members(r)))
    /\ [][\A c \in Conns :
            /\ (hPc[c] = "wantRemove" /\ hPc'[c] = "done") =>
                  /\ \A r \in Rooms :
                        lClients'[r] = IF r = hRoom[c]
                                       THEN SelectSeq(lClients[r], LAMBDA d : d # c)
                                       ELSE lClients[r]
                  /\ \A d \in Conns \ {c} :
                        /\ hPc'[d] = hPc[d]
                        /\ hClosed'[d] = hClosed[d]
                        /\ hRoom'[d] = hRoom[d]
            /\ (hPc[c] = "writing" /\ hPc'[c] = "read") =>
                  \A d \in Members(hRoom[c]) \ {c} :
                      ~hClosed[d] => hWritten'[d] = Append(hWritten[d], <<c, hReads[c]>>)
            /\ (hPc[c] = "wantTable" /\ hPc'[c] = "wantAdd" /\ lTable[hToken[c]] # NoRoom) =>
                  hRoom'[c] = lTable[hToken[c]]
            /\ (hPc[c] = "wantAdd" /\ hPc'[c] # "wantAdd") =>
                  IF Cardinality(Members(hRoom[c])) < RoomCapacity
                  THEN /\ hPc'[c] = "read"
                       /\ ~hClosed'[c]
                       /\ lClients'[hRoom[c]] = Append(lClients[hRoom[c]], c)
                  ELSE hPc'[c] = "rejected"
       ]_vars

\* C22 witness: connections c and d shared a room (d was written a frame
\* of c), c has left, e has joined the same room, still registered under
\* the token, and d, which stayed, has been written a frame of e
C22_Witness ==
    \E c \in Conns, d \in Conns, e \in Conns :
        /\ hPc[c] = "done" /\ hRoom[c] = hRoom[d]
        /\ Members(hRoom[d]) = {d, e}
        /\ lTable[hToken[d]] = hRoom[d]
        /\ ~hClosed[d]
        /\ hWritten[d] = <<<<c, 1>>, <<e, 1>>>>

\* what SendFile returns when a message could not be encrypted or written
SendFailures == {"encrypt_error", "write_error"}

\* C23: a failure of the sender is terminal for the file. The step of
\* SendFile in which the Metadata, a Chunk or the Complete message cannot be
\* encrypted or written returns the error and writes no frame; SendFile has
\* then returned for good, with the frames written before the failure and
\* neither a Cancel nor a Complete among them, and its result never becomes
\* success.
C23_FailureIsTerminal ==
    /\ [](sResult \in SendFailures =>
            /\ sPc = "returned"
            /\ \A i \in 1..Len(sSent) :
                  /\ ~IsCancel(sSent[i])
                  /\ ~IsComplete(sSent[i])
                  /\ i > 1 => IsChunk(sSent[i]))
    /\ [][/\ (sResult = "none" /\ sResult' \in SendFailures) => sSent' = sSent
          /\ sResult \in SendFailures => (sSent' = sSent /\ sResult' = sResult)
       ]_vars

\* C23 witness: the write of a Chunk failed after a Chunk had been sent
\* and with bytes of the file left
C23_Witness ==
    /\ sResult = "write_error"
    /\ sPc = "returned"
    /\ ChunksSent >= 1
    /\ sBytesSent < sFileSize
    /\ Len(sSent) = ChunksSent + 1

\* C24: session-table membership. Every connection that has been accepted
\* into a room, is still in it and has not been closed is in the room the
\* table registers under its token.
C24_TableMembership ==
    \A c \in Conns :
        (Accepted(c) /\ c \in SeqToSet(roomClients[connRoom[c]]))
            => rooms[connToken[c]] = connRoom[c]

\* the receiver's Ready has been broadcast in a room the sender was not in
ReadyLost ==
    /\ pairRecvPc = "connected"
    /\ pairOutbox = <<>>
    /\ pairInbox = <<>>

\* C25 as stated: the handshake depends on the join order. A Ready that
\* was broadcast before the sender joined is never observed and the wait
\* ends with the timeout error; and when the receiver joined the room
\* before the sender, WaitForReceiver does not succeed.
C25_JoinOrder ==
    /\ ReadyLost => sWaitErr \in {"none", "timeout"}
    /\ (pairClients # <<>> /\ pairClients[1] = "receiver") => sWaitErr # "nil"

\* C25: the handshake depends on the order of the sender's join and the
\* broadcast of Ready. A frame is written to the sender's connection only
\* by a broadcast made while the sender is in the room; a Ready broadcast
\* before that is kept nowhere and stays lost, and WaitForReceiver then
\* ends with the timeout error; WaitForReceiver succeeds only if the
\* sender had joined before the Ready was broadcast, whichever end joined
\* first.
C25_ReadyNotBuffered ==
    /\ [](ReadyLost => sWaitErr \in {"none", "timeout"})
    /\ [](sWaitErr = "nil" =>
            /\ pairInbox = <<FrameOf(ReadyMessage)>>
            /\ "sender" \in SeqToSet(pairClients))
    /\ [][/\ pairInbox' # pairInbox =>
                /\ "sender" \in SeqToSet(pairClients)
                /\ pairOutbox # <<>>
                /\ pairInbox' = Append(pairInbox, Head(pairOutbox))
          /\ ReadyLost => ReadyLost'
       ]_vars

\* C25 witness: the receiver joined and its Ready was broadcast, then the
\* sender joined, and its WaitForReceiver has ended with the timeout error
C25_Witness ==
    /\ ReadyLost
    /\ pairClients = <<"receiver", "sender">>
    /\ sWaitErr = "timeout"
    /\ sPc = "waitfailed"

\* C26: the sender's success is unacknowledged. The step of SendFile that
\* writes the Complete message returns success at once, and it is the only
\* step that does; no step of the sender touches what was written to its
\* own connection or depends on the receiver, whose state it leaves alone;
\* and the success stands whatever the receiver does afterwards.
C26_UnacknowledgedSuccess ==
    /\ [](sResult = "ok" =>
            /\ sPc = "returned"
            /\ sSent # <<>>
            /\ IsComplete(sSent[Len(sSent)]))
    /\ [][/\ (sSent' # sSent /\ IsComplete(sSent'[Len(sSent')])) =>
                /\ sResult' = "ok"
                /\ sPc' = "returned"
          /\ (sResult # "ok" /\ sResult' = "ok") =>
                /\ sSent' = Append(sSent, CompleteMessage)
                /\ UNCHANGED <<recvVars, wireVars>>
          /\ sResult = "ok" => UNCHANGED sendVars
       ]_vars

\* C26 witness: SendFile has returned success for a file of several
\* chunks, and ReceiveFile, which had created the file and written a chunk
\* of it, has returned an error and left no file
C26_Witness ==
    /\ sResult = "ok"
    /\ ChunksSent >= 2
    /\ rPc = "returned"
    /\ rResult \notin {"ok", "none"}
    /\ rDestPath \in Files
    /\ rFileContent # <<>>
    /\ \A f \in Files : disk[f] = Absent

====
